---- MODULE Spec2Model ----
(***************************************************************************)
(* A model of the gneiss-mcp vault (src/src/vault/vault.ts): the path      *)
(* guard, the vault's file operations, the wikilink index and the          *)
(* breadth-first link-graph traversal.                                     *)
(*                                                                         *)
(* Strings are TLA+ strings; Len, \o, SubSeq, Head and Tail act on them as *)
(* on sequences of characters.  Paths follow node:path's POSIX rules.      *)
(***************************************************************************)
EXTENDS Integers, Sequences, FiniteSets, TLC

----------------------------------------------------------------------------
(* JavaScript string primitives.                                           *)

CharAt(s, i) == SubSeq(s, i, i)

\* String.prototype.startsWith
StartsWith(s, p) == Len(p) <= Len(s) /\ SubSeq(s, 1, Len(p)) = p

\* String.prototype.endsWith
EndsWith(s, p) == Len(p) <= Len(s) /\ SubSeq(s, Len(s) - Len(p) + 1, Len(s)) = p

\* String.prototype.includes, for a one-character needle
IncludesChar(s, c) == \E i \in 1..Len(s) : CharAt(s, i) = c

\* the letters toLowerCase changes, for the characters the model uses
LowerTable ==
    ("A" :> "a") @@ ("B" :> "b") @@ ("C" :> "c") @@ ("D" :> "d") @@ ("E" :> "e") @@
    ("F" :> "f") @@ ("G" :> "g") @@ ("H" :> "h") @@ ("I" :> "i") @@ ("J" :> "j") @@
    ("K" :> "k") @@ ("L" :> "l") @@ ("M" :> "m") @@ ("N" :> "n") @@ ("O" :> "o") @@
    ("P" :> "p") @@ ("Q" :> "q") @@ ("R" :> "r") @@ ("S" :> "s") @@ ("T" :> "t") @@
    ("U" :> "u") @@ ("V" :> "v") @@ ("W" :> "w") @@ ("X" :> "x") @@ ("Y" :> "y") @@
    ("Z" :> "z")

LowerChar(c) == IF c \in DOMAIN LowerTable THEN LowerTable[c] ELSE c

RECURSIVE ToLowerCase(_)
\* String.prototype.toLowerCase
ToLowerCase(s) ==
    IF s = "" THEN ""
    ELSE IF Len(s) = 1 THEN LowerChar(s)
    ELSE LET half == Len(s) \div 2
         IN  ToLowerCase(SubSeq(s, 1, half)) \o ToLowerCase(SubSeq(s, half + 1, Len(s)))

RECURSIVE TrimStart(_)
TrimStart(s) == IF s # "" /\ Head(s) = " " THEN TrimStart(Tail(s)) ELSE s

RECURSIVE TrimEnd(_)
TrimEnd(s) ==
    IF s # "" /\ CharAt(s, Len(s)) = " " THEN TrimEnd(SubSeq(s, 1, Len(s) - 1)) ELSE s

\* String.prototype.trim
Trim(s) == TrimEnd(TrimStart(s))

RECURSIVE SplitOn(_, _, _)
\* String.prototype.split on any one character of seps
SplitOn(s, seps, cur) ==
    LET hits == {i \in 1..Len(s) : CharAt(s, i) \in seps}
    IN  IF hits = {} THEN <<cur \o s>>
        ELSE LET first == CHOOSE i \in hits : \A j \in hits : i <= j
             IN  <<cur \o SubSeq(s, 1, first - 1)>>
                 \o SplitOn(SubSeq(s, first + 1, Len(s)), seps, "")

----------------------------------------------------------------------------
(* node:path (POSIX).                                                      *)

\* the "/"-separated segments of s
Segments(s) == SplitOn(s, {"/"}, "")

RECURSIVE JoinSlash(_)
JoinSlash(segs) ==
    IF segs = <<>> THEN ""
    ELSE IF Len(segs) = 1 THEN segs[1]
    ELSE segs[1] \o "/" \o JoinSlash(Tail(segs))

RECURSIVE NormalizeSegs(_, _, _)
\* normalizeString: drops "" and ".", lets ".." pop the segment before it;
\* above the start ".." is kept only when allowAboveRoot
NormalizeSegs(segs, acc, allowAboveRoot) ==
    IF segs = <<>> THEN acc
    ELSE LET h == Head(segs)
             t == Tail(segs)
         IN  IF h = "" \/ h = "." THEN NormalizeSegs(t, acc, allowAboveRoot)
             ELSE IF h = ".."
                  THEN IF acc # <<>> /\ acc[Len(acc)] # ".."
                       THEN NormalizeSegs(t, SubSeq(acc, 1, Len(acc) - 1), allowAboveRoot)
                       ELSE IF allowAboveRoot
                            THEN NormalizeSegs(t, Append(acc, ".."), allowAboveRoot)
                            ELSE NormalizeSegs(t, acc, allowAboveRoot)
             ELSE NormalizeSegs(t, Append(acc, h), allowAboveRoot)

normalizeString(path, allowAboveRoot) ==
    JoinSlash(NormalizeSegs(Segments(path), <<>>, allowAboveRoot))

IsAbsolute(p) == p # "" /\ Head(p) = "/"

\* process.cwd() of the server process
Cwd == "/"

\* path.resolve(a, b): right to left until an absolute path is reached,
\* empty arguments skipped, the working directory last
resolve(a, b) ==
    LET s1 == IF b = "" THEN "" ELSE b \o "/"
        s2 == IF IsAbsolute(b) \/ a = "" THEN s1 ELSE a \o "/" \o s1
        s3 == IF IsAbsolute(s2) THEN s2 ELSE Cwd \o "/" \o s2
    IN  "/" \o normalizeString(s3, FALSE)

\* path.normalize
normalize(path) ==
    IF path = "" THEN "."
    ELSE LET abs   == IsAbsolute(path)
             trail == CharAt(path, Len(path)) = "/"
             p     == normalizeString(path, ~abs)
         IN  IF p = ""
             THEN (IF abs THEN "/" ELSE IF trail THEN "./" ELSE ".")
             ELSE (IF abs THEN "/" ELSE "") \o p \o (IF trail THEN "/" ELSE "")

\* path.join(a, b)
join(a, b) ==
    IF a = "" /\ b = "" THEN "."
    ELSE IF a = "" THEN normalize(b)
    ELSE IF b = "" THEN normalize(a)
    ELSE normalize(a \o "/" \o b)

RECURSIVE StripTrailingSlashes(_)
StripTrailingSlashes(s) ==
    IF Len(s) > 1 /\ CharAt(s, Len(s)) = "/"
    THEN StripTrailingSlashes(SubSeq(s, 1, Len(s) - 1))
    ELSE s

\* the last segment of a path, trailing separators ignored
LastSegment(path) ==
    LET segs == Segments(StripTrailingSlashes(path))
    IN  segs[Len(segs)]

\* path.dirname
dirname(path) ==
    IF path = "" THEN "."
    ELSE LET p    == StripTrailingSlashes(path)
             segs == Segments(p)
         IN  IF Len(segs) = 1 THEN "."
             ELSE LET d == StripTrailingSlashes(JoinSlash(SubSeq(segs, 1, Len(segs) - 1)))
                  IN  IF d = "" THEN "/" ELSE d

\* index of the last "." of s, 0 when there is none
LastDot(s) ==
    IF IncludesChar(s, ".")
    THEN CHOOSE i \in 1..Len(s) :
            CharAt(s, i) = "." /\ \A j \in (i + 1)..Len(s) : CharAt(s, j) # "."
    ELSE 0

\* path.extname: from the last "." of the last segment, "" when that "." is
\* the segment's first character or the segment is ".."
extname(path) ==
    LET base == LastSegment(path)
        d    == LastDot(base)
    IN  IF d <= 1 \/ base = ".." THEN "" ELSE SubSeq(base, d, Len(base))

\* path.basename(path, ext)
basename(path, ext) ==
    LET base == LastSegment(path)
    IN  IF ext # "" /\ EndsWith(base, ext) /\ base # ext
        THEN SubSeq(base, 1, Len(base) - Len(ext))
        ELSE base

\* path.relative(from, to)
relative(from, to) ==
    LET f == NormalizeSegs(Segments(resolve(from, "")), <<>>, FALSE)
        t == NormalizeSegs(Segments(resolve(to, "")), <<>>, FALSE)
        common == CHOOSE n \in 0..Len(f) :
                     /\ n <= Len(t)
                     /\ SubSeq(f, 1, n) = SubSeq(t, 1, n)
                     /\ (n < Len(f) /\ n < Len(t) => f[n + 1] # t[n + 1])
        ups == [i \in 1..(Len(f) - common) |-> ".."]
    IN  JoinSlash(ups \o SubSeq(t, common + 1, Len(t)))

----------------------------------------------------------------------------
(* Bounds of the model.                                                    *)

\* longest user path, in segments, that a call is given
MaxSegs == 2

\* largest depth a graph query asks for
MaxDepth == 2

----------------------------------------------------------------------------
(* The state.                                                              *)

VARIABLES
    root,       \* Vault.root, as given to the constructor
    disk,       \* the filesystem: a sequence of entries in creation order
    calls,      \* number of vault calls made so far
    call,       \* the last call: its operation and arguments
    outcome,    \* how the last call ended: "none", "ok", "escapes", "error"
    resolved,   \* what resolveSafe returned during the last call, in order
    ioCalls,    \* node:fs calls the last call issued
    pc,         \* where the graph query stands: "idle", "bfs", "done", "failed"
    forward,    \* graph: source path -> resolved targets (insertion-ordered Map)
    fileIndex,  \* graph: lower-cased basename -> path (insertion-ordered Map)
    backward,   \* graph: target -> sources (insertion-ordered Map)
    nodes,      \* graph: path -> depth (insertion-ordered Map)
    edges,      \* graph: the accumulated edge list
    queue,      \* graph: the BFS queue
    result,     \* graph: the GraphResult returned
    inflight,   \* the query calls running side by side, each with its locals
    http        \* the HTTP entry point: session table, last request and answer

vars == <<root, disk, calls, call, outcome, resolved, ioCalls,
          pc, forward, fileIndex, backward, nodes, edges, queue, result, inflight,
          http>>

----------------------------------------------------------------------------
(* The path guard.                                                         *)

\* resolveSafe with a plain prefix test, without the separator boundary
resolveSafe_NoBoundary(rt, userPath) ==
    LET resolvedRoot == resolve(rt, "")
        resolvedPath == resolve(rt, userPath)
    IN  [threw |-> ~StartsWith(resolvedPath, resolvedRoot), path |-> resolvedPath]

\* Vault.resolveSafe: threw is the 'Path escapes vault root' error
resolveSafe(rt, userPath) ==
    LET resolvedRoot == resolve(rt, "")
        resolvedPath == resolve(rt, userPath)
    IN  [threw |-> resolvedPath # resolvedRoot
                   /\ ~StartsWith(resolvedPath, resolvedRoot \o "/"),
         path  |-> resolvedPath]

----------------------------------------------------------------------------
(* node:fs over the disk.  An entry is [path, isDir, text]; "/" always     *)
(* exists.  readdir lists a directory's entries in creation order.         *)

File(p, t) == [path |-> p, isDir |-> FALSE, text |-> t]

Dir(p) == [path |-> p, isDir |-> TRUE, text |-> ""]

Exists(d, p) == p = "/" \/ \E i \in DOMAIN d : d[i].path = p

IsDir(d, p) == p = "/" \/ \E i \in DOMAIN d : d[i].path = p /\ d[i].isDir

IsFile(d, p) == \E i \in DOMAIN d : d[i].path = p /\ ~d[i].isDir

EntryAt(d, p) == d[CHOOSE i \in DOMAIN d : d[i].path = p]

\* p lies strictly below directory dir
Below(dir, p) == StartsWith(p, IF dir = "/" THEN "/" ELSE dir \o "/") /\ p # dir

RECURSIVE Filter(_, _, _)
\* the entries of d that are (keepChildren) or are not the children of dir
Filter(d, dir, keepChildren) ==
    IF d = <<>> THEN <<>>
    ELSE LET isChild == dirname(Head(d).path) = dir /\ Head(d).path # "/"
         IN  (IF isChild = keepChildren THEN <<Head(d)>> ELSE <<>>)
             \o Filter(Tail(d), dir, keepChildren)

\* readdir(dir, {withFileTypes: true}) of an existing directory
readdir(d, dir) == Filter(d, dir, TRUE)

\* readFile(p, "utf-8") of an existing file
readFile(d, p) == EntryAt(d, p).text

RECURSIVE Remove(_, _)
\* rm(p, {recursive}): p and everything below it
Remove(d, p) ==
    IF d = <<>> THEN <<>>
    ELSE (IF Head(d).path = p \/ Below(p, Head(d).path) THEN <<>> ELSE <<Head(d)>>)
         \o Remove(Tail(d), p)

RECURSIVE Ancestors(_)
\* the directories from "/" down to p itself
Ancestors(p) == IF p = "/" THEN <<>> ELSE Ancestors(dirname(p)) \o <<p>>

RECURSIVE MkdirAll(_, _)
MkdirAll(d, ps) ==
    IF ps = <<>> THEN d
    ELSE MkdirAll(IF Exists(d, Head(ps)) THEN d ELSE Append(d, Dir(Head(ps))), Tail(ps))

\* mkdir(p, {recursive: true}) fails when a file is in the way
MkdirFails(d, p) == \E i \in 1..Len(Ancestors(p)) : IsFile(d, Ancestors(p)[i])

mkdir(d, p) == MkdirAll(d, Ancestors(p))

\* writeFile(p, text): replaces the file's text in place, or creates it
writeFile(d, p, t) ==
    IF IsFile(d, p)
    THEN [i \in DOMAIN d |-> IF d[i].path = p THEN File(p, t) ELSE d[i]]
    ELSE Append(d, File(p, t))

WriteFails(d, p) == IsDir(d, p) \/ ~IsDir(d, dirname(p))

\* rename(2) fails when the source is missing, the destination's parent is,
\* the destination is of the other kind or a non-empty directory, or a
\* directory would move into itself
RenameFails(d, s, t) ==
    \/ ~Exists(d, s) \/ s = "/" \/ t = "/"
    \/ ~IsDir(d, dirname(t))
    \/ Below(s, t)
    \/ (Exists(d, t) /\ s # t /\ (IsDir(d, t) # IsDir(d, s) \/ readdir(d, t) # <<>>))

\* rename(s, t): s and everything below it moves to t
rename(d, s, t) ==
    IF s = t THEN d
    ELSE LET kept == Remove(d, t)
         IN  [i \in DOMAIN kept |->
                IF kept[i].path = s THEN [kept[i] EXCEPT !.path = t]
                ELSE IF Below(s, kept[i].path)
                     THEN [kept[i] EXCEPT
                             !.path = t \o SubSeq(kept[i].path, Len(s) + 1, Len(kept[i].path))]
                     ELSE kept[i]]

----------------------------------------------------------------------------
(* Insertion-ordered Map: a sequence of <<key, value>> pairs.              *)

MapHas(m, k) == \E i \in DOMAIN m : m[i][1] = k

MapGet(m, k) == m[CHOOSE i \in DOMAIN m : m[i][1] = k][2]

\* Map.prototype.set: an existing key keeps its place
MapSet(m, k, v) ==
    IF MapHas(m, k)
    THEN [i \in DOMAIN m |-> IF m[i][1] = k THEN <<k, v>> ELSE m[i]]
    ELSE Append(m, <<k, v>>)

MapKeys(m) == {m[i][1] : i \in DOMAIN m}

MapValues(m) == {m[i][2] : i \in DOMAIN m}

----------------------------------------------------------------------------
(* The corpus scan.                                                        *)

RECURSIVE collectMarkdownFiles(_, _, _)
RECURSIVE CollectEntries(_, _, _, _)

RECURSIVE CollectEntries_Hidden(_, _, _, _)
\* the scan without the test on a leading "."
CollectEntries_Hidden(rt, d, dirPath, entries) ==
    IF entries = <<>> THEN <<>>
    ELSE LET entry    == Head(entries)
             name     == LastSegment(entry.path)
             fullPath == join(dirPath, name)
             found    == IF entry.isDir THEN collectMarkdownFiles(rt, d, fullPath)
                         ELSE IF extname(name) = ".md"
                              THEN <<[relPath |-> relative(rt, fullPath), fullPath |-> fullPath]>>
                              ELSE <<>>
         IN  found \o CollectEntries_Hidden(rt, d, dirPath, Tail(entries))

\* the loop of collectMarkdownFiles over the entries readdir returned
CollectEntries(rt, d, dirPath, entries) ==
    IF entries = <<>> THEN <<>>
    ELSE LET entry    == Head(entries)
             name     == LastSegment(entry.path)
             fullPath == join(dirPath, name)
             found    == IF StartsWith(name, ".") THEN <<>>
                         ELSE IF entry.isDir THEN collectMarkdownFiles(rt, d, fullPath)
                         ELSE IF extname(name) = ".md"
                              THEN <<[relPath |-> relative(rt, fullPath), fullPath |-> fullPath]>>
                              ELSE <<>>
         IN  found \o CollectEntries(rt, d, dirPath, Tail(entries))

\* Vault.collectMarkdownFiles: the files pushed, in order
collectMarkdownFiles(rt, d, dirPath) ==
    CollectEntries(rt, d, dirPath, readdir(d, resolve(dirPath, "")))

RECURSIVE ScanReaddirs(_, _)
RECURSIVE ScanReaddirsIn(_, _)

ScanReaddirsIn(d, entries) ==
    IF entries = <<>> THEN 0
    ELSE (IF Head(entries).isDir /\ ~StartsWith(LastSegment(Head(entries).path), ".")
          THEN ScanReaddirs(d, Head(entries).path) ELSE 0)
         + ScanReaddirsIn(d, Tail(entries))

\* readdir calls a scan of directory dir issues
ScanReaddirs(d, dir) == 1 + ScanReaddirsIn(d, readdir(d, dir))

----------------------------------------------------------------------------
(* Wikilinks.                                                              *)

\* the longest prefix of s with no character of stop
TakeWhileNot(s, stop) ==
    LET hits == {i \in 1..Len(s) : CharAt(s, i) \in stop}
    IN  IF hits = {} THEN s
        ELSE SubSeq(s, 1, (CHOOSE i \in hits : \A j \in hits : i <= j) - 1)

RECURSIVE MatchAll(_)
\* the first capture group of every match of /\[\[([^\]|#]+)[^\]]*\]\]/g
MatchAll(s) ==
    LET opens == {i \in 1..(Len(s) - 1) : SubSeq(s, i, i + 1) = "[["}
    IN  IF opens = {} THEN <<>>
        ELSE LET open  == CHOOSE i \in opens : \A j \in opens : i <= j
                 body  == SubSeq(s, open + 2, Len(s))
                 group == TakeWhileNot(body, {"]", "|", "#"})
                 inner == TakeWhileNot(body, {"]"})
                 after == SubSeq(body, Len(inner) + 1, Len(body))
             IN  IF group # "" /\ StartsWith(after, "]]")
                 THEN <<group>> \o MatchAll(SubSeq(after, 3, Len(after)))
                 ELSE MatchAll(SubSeq(s, open + 1, Len(s)))

RECURSIVE AddAll(_, _)
\* Set.prototype.add of each element in turn; [...seen] keeps insertion order
AddAll(seen, xs) ==
    IF xs = <<>> THEN seen
    ELSE AddAll(IF \E i \in DOMAIN seen : seen[i] = Trim(Head(xs))
                THEN seen ELSE Append(seen, Trim(Head(xs))),
                Tail(xs))

\* Vault.parseWikilinks
parseWikilinks(content) == AddAll(<<>>, MatchAll(content))

\* string | null
Null == [isNull |-> TRUE, path |-> ""]

Found(p) == [isNull |-> FALSE, path |-> p]

\* Vault.resolveWikilink
resolveWikilink(target, fIndex) ==
    LET normalized == IF EndsWith(ToLowerCase(target), ".md")
                      THEN SubSeq(target, 1, Len(target) - 3)
                      ELSE target
        withExt    == normalized \o ".md"
        hit(i)     == fIndex[i][2] = withExt
                      \/ ToLowerCase(fIndex[i][2]) = ToLowerCase(withExt)
    IN  IF IncludesChar(target, "/") /\ \E i \in DOMAIN fIndex : hit(i)
        THEN Found(fIndex[CHOOSE i \in DOMAIN fIndex :
                              hit(i) /\ \A j \in 1..(i - 1) : ~hit(j)][2])
        ELSE IF MapHas(fIndex, ToLowerCase(normalized))
             THEN Found(MapGet(fIndex, ToLowerCase(normalized)))
             ELSE Null

RECURSIVE BuildFileIndex(_, _)
\* buildLinkIndex, first loop: basename -> path, a later file replacing an
\* earlier one of the same lower-cased basename
BuildFileIndex(files, fIndex) ==
    IF files = <<>> THEN fIndex
    ELSE BuildFileIndex(Tail(files),
            MapSet(fIndex, ToLowerCase(basename(Head(files).relPath, ".md")),
                   Head(files).relPath))

RECURSIVE ResolveAll_DropDangling(_, _)
\* the inner loop with an unresolved target left out
ResolveAll_DropDangling(targets, fIndex) ==
    IF targets = <<>> THEN <<>>
    ELSE (IF resolveWikilink(Head(targets), fIndex).isNull THEN <<>>
          ELSE <<resolveWikilink(Head(targets), fIndex).path>>)
         \o ResolveAll_DropDangling(Tail(targets), fIndex)

\* the resolved list keeps one entry for each distinct resolved target
ResolveAll_Distinct(targets, fIndex) ==
    LET all  == [i \in DOMAIN targets |->
                   IF resolveWikilink(targets[i], fIndex).isNull
                   THEN targets[i] ELSE resolveWikilink(targets[i], fIndex).path]
        keep == {i \in DOMAIN all : \A j \in 1..(i - 1) : all[j] # all[i]}
    IN  [k \in 1..Cardinality(keep) |->
            all[CHOOSE i \in keep : Cardinality({j \in keep : j <= i}) = k]]

\* buildLinkIndex, inner loop: path ?? target
ResolveAll(targets, fIndex) ==
    [i \in DOMAIN targets |->
        IF resolveWikilink(targets[i], fIndex).isNull
        THEN targets[i] ELSE resolveWikilink(targets[i], fIndex).path]

\* buildLinkIndex, second loop: the forward link map (node:fs takes a relative
\* path from the working directory)
BuildForward(d, files, fIndex) ==
    [i \in DOMAIN files |->
        <<files[i].relPath,
          ResolveAll(parseWikilinks(readFile(d, resolve(files[i].fullPath, ""))), fIndex)>>]

\* Vault.buildLinkIndex
buildLinkIndex(rt, d) ==
    LET files  == collectMarkdownFiles(rt, d, rt)
        fIndex == BuildFileIndex(files, <<>>)
    IN  [forward |-> BuildForward(d, files, fIndex), fileIndex |-> fIndex]

----------------------------------------------------------------------------
(* Vault.graph.                                                            *)

\* an option the caller left out
Undefined == [given |-> FALSE, value |-> 0]

Given(v) == [given |-> TRUE, value |-> v]

\* options.depth || 1: a depth of 0 taken for a missing one
DepthOf_ZeroIsUnset(c) == IF c.depth.given /\ c.depth.value # 0 THEN c.depth.value ELSE 1

\* options.depth ?? 1
DepthOf(c) == IF c.depth.given THEN c.depth.value ELSE 1

\* options.direction ?? "both"
DirectionOf(c) == IF c.direction = "undefined" THEN "both" ELSE c.direction

RECURSIVE InvertInto_Once(_, _, _)
\* the inner loop pushing a source onto a target's list once only
InvertInto_Once(bw, source, targets) ==
    IF targets = <<>> THEN bw
    ELSE LET t    == Head(targets)
             list == IF MapHas(bw, t) THEN MapGet(bw, t) ELSE <<>>
         IN  InvertInto_Once(
                 MapSet(bw, t, IF \E i \in DOMAIN list : list[i] = source
                               THEN list ELSE Append(list, source)),
                 source, Tail(targets))

RECURSIVE InvertInto(_, _, _)
\* the inner loop of the backward map: source is pushed onto every target's list
InvertInto(bw, source, targets) ==
    IF targets = <<>> THEN bw
    ELSE LET t    == Head(targets)
             list == IF MapHas(bw, t) THEN MapGet(bw, t) ELSE <<>>
         IN  InvertInto(MapSet(bw, t, Append(list, source)), source, Tail(targets))

RECURSIVE BuildBackward(_, _)
\* the backward map: for (const [source, targets] of forward)
BuildBackward(fw, bw) ==
    IF fw = <<>> THEN bw
    ELSE BuildBackward(Tail(fw), InvertInto(bw, Head(fw)[1], Head(fw)[2]))

Edge(s, t) == [source |-> s, target |-> t]

\* the backward candidates are emitted from the dequeued node to the source
Neighbors_Swapped(fw, bw, direction, path) ==
    LET fs == IF direction \in {"forward", "both"} /\ MapHas(fw, path)
              THEN MapGet(fw, path) ELSE <<>>
        bs == IF direction \in {"backward", "both"} /\ MapHas(bw, path)
              THEN MapGet(bw, path) ELSE <<>>
    IN  [i \in DOMAIN fs |-> Edge(path, fs[i])] \o [i \in DOMAIN bs |-> Edge(path, bs[i])]

\* the candidate edges of one dequeued node, forward ones first
Neighbors(fw, bw, direction, path) ==
    LET fs == IF direction \in {"forward", "both"} /\ MapHas(fw, path)
              THEN MapGet(fw, path) ELSE <<>>
        bs == IF direction \in {"backward", "both"} /\ MapHas(bw, path)
              THEN MapGet(bw, path) ELSE <<>>
    IN  [i \in DOMAIN fs |-> Edge(path, fs[i])] \o [i \in DOMAIN bs |-> Edge(bs[i], path)]

\* the edge is recorded whether or not an equal pair already is
RecordEdge_NoDedup(es, edge) == Append(es, edge)

\* the edge is recorded unless an equal (source, target) pair already is
RecordEdge(es, edge) ==
    IF \E i \in DOMAIN es : es[i].source = edge.source /\ es[i].target = edge.target
    THEN es ELSE Append(es, edge)

\* the neighbour is given nextDepth and queued whether or not it already
\* has a depth
QueueNeighbor_Requeue(st, neighbor, nextDepth) ==
    [st EXCEPT !.nodes = MapSet(st.nodes, neighbor, nextDepth),
               !.queue = Append(st.queue, [path |-> neighbor, depth |-> nextDepth])]

\* the neighbour is given nextDepth even when it already has a depth
QueueNeighbor_Redepth(st, neighbor, nextDepth) ==
    IF MapHas(st.nodes, neighbor)
    THEN [st EXCEPT !.nodes = MapSet(st.nodes, neighbor, nextDepth)]
    ELSE [st EXCEPT !.nodes = Append(st.nodes, <<neighbor, nextDepth>>),
                    !.queue = Append(st.queue, [path |-> neighbor, depth |-> nextDepth])]

\* the neighbour is queued unless it is waiting in the queue
QueueNeighbor_UnlessQueued(st, neighbor, nextDepth) ==
    IF \E i \in DOMAIN st.queue : st.queue[i].path = neighbor THEN st
    ELSE [st EXCEPT !.nodes = IF MapHas(st.nodes, neighbor) THEN st.nodes
                               ELSE Append(st.nodes, <<neighbor, nextDepth>>),
                    !.queue = Append(st.queue, [path |-> neighbor, depth |-> nextDepth])]

\* the neighbour is given nextDepth and queued unless it already has a depth
QueueNeighbor(st, neighbor, nextDepth) ==
    IF MapHas(st.nodes, neighbor) THEN st
    ELSE [st EXCEPT !.nodes = Append(st.nodes, <<neighbor, nextDepth>>),
                    !.queue = Append(st.queue, [path |-> neighbor, depth |-> nextDepth])]

RECURSIVE Expand(_, _, _, _)
\* for (const edge of neighbors): st holds nodes, edges and queue
Expand(neighbors, path, nextDepth, st) ==
    IF neighbors = <<>> THEN st
    ELSE LET edge     == Head(neighbors)
             neighbor == IF edge.source = path THEN edge.target ELSE edge.source
             st1      == [st EXCEPT !.edges = RecordEdge(st.edges, edge)]
         IN  Expand(Tail(neighbors), path, nextDepth, QueueNeighbor(st1, neighbor, nextDepth))

\* if (current.depth > depth) continue
Expands_AtLimit(current, depth) == ~(current.depth > depth)

\* whether the loop expands a dequeued node: if (current.depth >= depth) continue
Expands(current, depth) == ~(current.depth >= depth)

\* the exists flag of a node: allPaths.has(p), allPaths the fileIndex's values
NodeExists(fIndex, p) == p \in MapValues(fIndex)

\* a GraphResult that lists only the nodes that exist
GraphResult_ExistingOnly(rootPath, ns, es, fIndex) ==
    [root  |-> rootPath,
     nodes |-> SelectSeq([i \in DOMAIN ns |->
                            [path |-> ns[i][1], depth |-> ns[i][2],
                             exists |-> NodeExists(fIndex, ns[i][1])]],
                         LAMBDA n : n.exists \/ n.path = rootPath),
     edges |-> es]

\* the GraphResult
GraphResult(rootPath, ns, es, fIndex) ==
    [root  |-> rootPath,
     nodes |-> [i \in DOMAIN ns |->
                  [path |-> ns[i][1], depth |-> ns[i][2], exists |-> NodeExists(fIndex, ns[i][1])]],
     edges |-> es]

NoResult == [root |-> "", nodes |-> <<>>, edges |-> <<>>]

\* an EditOperation; metadata is given by its YAML text
EditOp(mode, content, find, replace, all, metadata) ==
    [mode |-> mode, content |-> content, find |-> find, replace |-> replace,
     all |-> all, metadata |-> metadata]

NoEdit == EditOp("none", "", "", "", FALSE, "")

NoCall == [op |-> "none", path |-> "", arg |-> "", depth |-> Undefined,
           direction |-> "undefined", edit |-> NoEdit]

\* Vault.graph up to the first loop test: the guard, the link index, the
\* backward map and the queue holding the root.  index is what
\* buildLinkIndex() returns on the disk as it is, read once the guard passed
GraphCall(path, depth, direction, index) ==
    /\ pc = "idle"
    /\ \E g \in {resolveSafe(root, path)} :
           /\ call' = [NoCall EXCEPT !.op = "graph", !.path = path, !.depth = depth,
                                     !.direction = direction]
           /\ calls' = calls + 1
           /\ result' = NoResult
           /\ IF g.threw
              THEN /\ outcome' = "escapes"
                   /\ resolved' = <<>>
                   /\ ioCalls' = 0
                   /\ pc' = "failed"
                   /\ UNCHANGED <<forward, fileIndex, backward, nodes, edges, queue>>
              ELSE IF ~IsDir(disk, resolve(root, ""))
              THEN /\ outcome' = "error"
                   /\ resolved' = <<g.path>>
                   /\ ioCalls' = 1
                   /\ pc' = "failed"
                   /\ UNCHANGED <<forward, fileIndex, backward, nodes, edges, queue>>
              ELSE \E rootPath \in {relative(root, g.path)} :
                       /\ outcome' = "running"
                       /\ resolved' = <<g.path>>
                       /\ ioCalls' = ScanReaddirs(disk, resolve(root, "")) + Len(index.forward)
                       /\ forward' = index.forward
                       /\ fileIndex' = index.fileIndex
                       /\ backward' = BuildBackward(index.forward, <<>>)
                       /\ nodes' = <<<<rootPath, 0>>>>
                       /\ edges' = <<>>
                       /\ queue' = <<[path |-> rootPath, depth |-> 0]>>
                       /\ pc' = "bfs"
    /\ UNCHANGED <<root, disk, inflight, http>>

\* one iteration of while (queue.length > 0)
GraphVisit ==
    /\ pc = "bfs"
    /\ queue # <<>>
    /\ LET current == Head(queue)
           st0     == [nodes |-> nodes, edges |-> edges, queue |-> Tail(queue)]
           st1     == IF Expands(current, DepthOf(call))
                      THEN Expand(Neighbors(forward, backward, DirectionOf(call), current.path),
                                  current.path, current.depth + 1, st0)
                      ELSE st0
       IN  /\ nodes' = st1.nodes
           /\ edges' = st1.edges
           /\ queue' = st1.queue
    /\ UNCHANGED <<root, disk, calls, call, outcome, resolved, ioCalls,
                   pc, forward, fileIndex, backward, result, inflight, http>>

\* the queue is empty: the result is returned
GraphReturn ==
    /\ pc = "bfs"
    /\ queue = <<>>
    /\ result' = GraphResult(nodes[1][1], nodes, edges, fileIndex)
    /\ outcome' = "ok"
    /\ pc' = "done"
    /\ UNCHANGED <<root, disk, calls, call, resolved, ioCalls,
                   forward, fileIndex, backward, nodes, edges, queue, inflight, http>>

----------------------------------------------------------------------------
(* The link-graph specification: a vault of three notes, two of them with  *)
(* the same basename, and one graph query against it.                      *)

VaultDir == "/vault"

\* what a note may hold: no link, links by basename in either case, with an
\* alias, a heading or the extension, a link by path, and dangling links
NoteTexts ==
    { "no links",
      "see [[a]]",
      "[[b]] and [[a]]",
      "[[zz]] [[b|x]] [[B.md]] [[ b#h ]]",
      "[[s/a]] then [[zz]]" }

\* the vault with its entries in either readdir order
VaultDisk(sFirst, ta, tsa, tb) ==
    LET top == <<File("/vault/a.md", ta)>>
        sub == <<Dir("/vault/s"), File("/vault/s/a.md", tsa)>>
    IN  <<Dir(VaultDir)>>
        \o (IF sFirst THEN sub \o top ELSE top \o sub)
        \o <<File("/vault/B.md", tb), File("/vault/n.txt", "[[zz]]"),
             Dir("/vault/.h"), File("/vault/.h/c.md", "[[a]]")>>

GraphPaths == {"a.md", "s/a.md", "B.md", "zz", "../x"}

Depths == {Undefined} \cup {Given(n) : n \in 0..MaxDepth}

Directions == {"undefined", "forward", "backward", "both"}

InitIdle ==
    /\ calls = 0
    /\ call = NoCall
    /\ outcome = "none"
    /\ resolved = <<>>
    /\ ioCalls = 0
    /\ pc = "idle"
    /\ forward = <<>>
    /\ fileIndex = <<>>
    /\ backward = <<>>
    /\ nodes = <<>>
    /\ edges = <<>>
    /\ queue = <<>>
    /\ result = NoResult
    /\ inflight = <<>>
    /\ http = [sessions |-> {}, issued |-> 0, closed |-> {}, before |-> {},
               request |-> [method |-> "", sessionId |-> Undefined, body |-> ""],
               answer |-> "none"]

Init ==
    /\ root = VaultDir
    /\ \E sFirst \in BOOLEAN, ta \in NoteTexts, tsa \in NoteTexts, tb \in NoteTexts :
          disk = VaultDisk(sFirst, ta, tsa, tb)
    /\ InitIdle

\* a client's graph request
GraphQuery ==
    /\ calls = 0
    /\ \E index \in {buildLinkIndex(root, disk)} :
          \E path \in GraphPaths, depth \in Depths, direction \in Directions :
             GraphCall(path, depth, direction, index)

Next == GraphQuery \/ GraphVisit \/ GraphReturn

Spec == Init /\ [][Next]_vars

\* the loop of Vault.graph holds no await: once the index is built the walk
\* runs on to its return.  The middle conjunct is WF_vars(GraphVisit) with
\* ENABLED <<GraphVisit>>_vars written out as its guard
SpecFair ==
    /\ Spec
    /\ []<>(pc # "bfs" \/ queue = <<>>) \/ []<><<GraphVisit>>_vars
    /\ WF_vars(GraphReturn)

----------------------------------------------------------------------------
(* The vault's file operations.  Each returns how the call ended, the disk *)
(* it leaves, the node:fs calls it issued and what resolveSafe returned.   *)
(* The listing, tree text and file content handed back are not modelled.   *)

Ended(how, d, io, res) == [outcome |-> how, disk |-> d, io |-> io, resolved |-> res]

\* resolveSafe threw: nothing was read or written
Escaped(d, res) == Ended("escapes", d, 0, res)

\* Vault.list
VaultList(rt, d, dirPath) ==
    LET g == resolveSafe(rt, dirPath)
    IN  IF g.threw THEN Escaped(d, <<>>)
        ELSE IF ~IsDir(d, g.path) THEN Ended("error", d, 1, <<g.path>>)
        ELSE Ended("ok", d, 1, <<g.path>>)

RECURSIVE buildTree(_, _, _)
RECURSIVE BuildTreeIn(_, _, _)

BuildTreeIn(d, entries, depth) ==
    IF entries = <<>> THEN 0
    ELSE (IF Head(entries).isDir /\ ~StartsWith(LastSegment(Head(entries).path), ".")
          THEN buildTree(d, Head(entries).path, depth - 1) ELSE 0)
         + BuildTreeIn(d, Tail(entries), depth)

\* Vault.buildTree: the readdir calls it issues
buildTree(d, fullPath, depth) ==
    IF depth <= 0 THEN 0 ELSE 1 + BuildTreeIn(d, readdir(d, fullPath), depth)

\* Vault.tree; depth defaults to 3
VaultTree(rt, d, dirPath, depth) ==
    LET g == resolveSafe(rt, dirPath)
        n == IF depth.given THEN depth.value ELSE 3
    IN  IF g.threw THEN Escaped(d, <<>>)
        ELSE IF n > 0 /\ ~IsDir(d, g.path) THEN Ended("error", d, 1, <<g.path>>)
        ELSE Ended("ok", d, buildTree(d, g.path, n), <<g.path>>)

\* Vault.read
VaultRead(rt, d, filePath) ==
    LET g == resolveSafe(rt, filePath)
    IN  IF g.threw THEN Escaped(d, <<>>)
        ELSE IF ~IsFile(d, g.path) THEN Ended("error", d, 1, <<g.path>>)
        ELSE Ended("ok", d, 1, <<g.path>>)

\* Vault.create
VaultCreate(rt, d, targetPath, content) ==
    LET g == resolveSafe(rt, targetPath)
    IN  IF g.threw THEN Escaped(d, <<>>)
        ELSE IF EndsWith(targetPath, "/")
        THEN IF MkdirFails(d, g.path) THEN Ended("error", d, 1, <<g.path>>)
             ELSE Ended("ok", mkdir(d, g.path), 1, <<g.path>>)
        ELSE IF MkdirFails(d, dirname(g.path)) THEN Ended("error", d, 1, <<g.path>>)
        ELSE LET made == mkdir(d, dirname(g.path))
             IN  IF WriteFails(made, g.path) THEN Ended("error", made, 2, <<g.path>>)
                 ELSE Ended("ok", writeFile(made, g.path, content), 2, <<g.path>>)

\* Vault.move with only the source path guarded
VaultMove_DestUnguarded(rt, d, sourcePath, destPath) ==
    LET gs == resolveSafe(rt, sourcePath)
        to == resolve(rt, destPath)
    IN  IF gs.threw THEN Escaped(d, <<>>)
        ELSE IF RenameFails(d, gs.path, to) THEN Ended("error", d, 1, <<gs.path, to>>)
        ELSE Ended("ok", rename(d, gs.path, to), 1, <<gs.path, to>>)

\* Vault.move: both arguments pass the guard before rename is called
VaultMove(rt, d, sourcePath, destPath) ==
    LET gs == resolveSafe(rt, sourcePath)
        gd == resolveSafe(rt, destPath)
    IN  IF gs.threw THEN Escaped(d, <<>>)
        ELSE IF gd.threw THEN Escaped(d, <<gs.path>>)
        ELSE IF RenameFails(d, gs.path, gd.path)
             THEN Ended("error", d, 1, <<gs.path, gd.path>>)
        ELSE Ended("ok", rename(d, gs.path, gd.path), 1, <<gs.path, gd.path>>)

\* Vault.rename
VaultRename(rt, d, filePath, newName) ==
    LET gs      == resolveSafe(rt, filePath)
        dir     == dirname(filePath)
        ext     == extname(filePath)
        newPath == join(dir, IF ext # "" THEN newName \o ext ELSE newName)
        gd      == resolveSafe(rt, newPath)
    IN  IF gs.threw THEN Escaped(d, <<>>)
        ELSE IF gd.threw THEN Escaped(d, <<gs.path>>)
        ELSE IF RenameFails(d, gs.path, gd.path)
             THEN Ended("error", d, 1, <<gs.path, gd.path>>)
        ELSE Ended("ok", rename(d, gs.path, gd.path), 1, <<gs.path, gd.path>>)

\* Vault.delete: stat, then rm
VaultDelete(rt, d, targetPath) ==
    LET g == resolveSafe(rt, targetPath)
    IN  IF g.threw THEN Escaped(d, <<>>)
        ELSE IF ~Exists(d, g.path) THEN Ended("error", d, 1, <<g.path>>)
        ELSE IF g.path = "/" THEN Ended("error", d, 2, <<g.path>>)
        ELSE Ended("ok", Remove(d, g.path), 2, <<g.path>>)

----------------------------------------------------------------------------
(* Vault.edit.                                                             *)

\* String.prototype.indexOf, 1-based; 0 when find does not occur
IndexOf(s, find) ==
    LET at(i) == SubSeq(s, i, i + Len(find) - 1) = find
    IN  IF \E i \in 1..(Len(s) - Len(find) + 1) : at(i)
        THEN CHOOSE i \in 1..(Len(s) - Len(find) + 1) : at(i) /\ \A j \in 1..(i - 1) : ~at(j)
        ELSE 0

\* String.prototype.includes
Includes(s, find) == find = "" \/ IndexOf(s, find) > 0

\* a replace that takes the last occurrence
ReplaceFirst_Last(s, find, by) ==
    LET at(i) == SubSeq(s, i, i + Len(find) - 1) = find
        hits  == {i \in 1..(Len(s) - Len(find) + 1) : at(i)}
    IN  IF hits = {} THEN s
        ELSE LET i == CHOOSE k \in hits : \A j \in hits : j <= k
             IN  SubSeq(s, 1, i - 1) \o by \o SubSeq(s, i + Len(find), Len(s))

\* String.prototype.replace with a string pattern and a replacement that
\* holds no "$": the first occurrence only
ReplaceFirst(s, find, by) ==
    IF find = "" THEN by \o s
    ELSE IF IndexOf(s, find) = 0 THEN s
    ELSE SubSeq(s, 1, IndexOf(s, find) - 1) \o by
         \o SubSeq(s, IndexOf(s, find) + Len(find), Len(s))

RECURSIVE Interleave(_, _)
Interleave(s, by) == IF s = "" THEN by ELSE by \o Head(s) \o Interleave(Tail(s), by)

RECURSIVE ReplaceAll(_, _, _)
\* String.prototype.replaceAll, occurrences taken left to right
ReplaceAll(s, find, by) ==
    IF find = "" THEN Interleave(s, by)
    ELSE IF IndexOf(s, find) = 0 THEN s
    ELSE SubSeq(s, 1, IndexOf(s, find) - 1) \o by
         \o ReplaceAll(SubSeq(s, IndexOf(s, find) + Len(find), Len(s)), find, by)

Fence == "---\n"

\* gray-matter's parse: the YAML text between the fences (data), "" when the
\* file has no front matter, and the text after them (content)
matter(raw) ==
    LET rest  == SubSeq(raw, Len(Fence) + 1, Len(raw))
        close == IndexOf(rest, "\n" \o Fence)
    IN  IF StartsWith(raw, Fence) /\ close > 0
        THEN [data    |-> SubSeq(rest, 1, close - 1),
              content |-> SubSeq(rest, close + Len(Fence) + 1, Len(rest))]
        ELSE [data |-> "", content |-> raw]

\* gray-matter's newline(): the text ends with a line break
WithNewline(str) == IF str # "" /\ EndsWith(str, "\n") THEN str ELSE str \o "\n"

\* gray-matter's stringify(content, data)
stringify(content, data) ==
    (IF data = "" THEN "" ELSE Fence \o data \o "\n" \o Fence) \o WithNewline(content)

\* {...data, ...metadata}, for metadata whose keys data does not hold
MergeData(data, metadata) ==
    IF data = "" THEN metadata
    ELSE IF metadata = "" THEN data
    ELSE data \o "\n" \o metadata

Threw == [threw |-> TRUE, text |-> ""]

Text(t) == [threw |-> FALSE, text |-> t]

\* the switch of Vault.edit: the new file text, or an error thrown
EditResult(raw, isMd, operation) ==
    CASE operation.mode = "replace" ->
            Text(IF isMd THEN stringify(operation.content, matter(raw).data)
                 ELSE operation.content)
      [] operation.mode = "append" -> Text(raw \o operation.content)
      [] operation.mode = "prepend" ->
            Text(IF isMd /\ matter(raw).data # ""
                 THEN stringify(operation.content \o matter(raw).content, matter(raw).data)
                 ELSE operation.content \o raw)
      [] operation.mode = "find-replace" ->
            IF ~Includes(raw, operation.find) THEN Threw
            ELSE Text(IF operation.all
                      THEN ReplaceAll(raw, operation.find, operation.replace)
                      ELSE ReplaceFirst(raw, operation.find, operation.replace))
      [] operation.mode = "patch-frontmatter" ->
            IF ~isMd THEN Threw
            ELSE Text(stringify(matter(raw).content,
                                MergeData(matter(raw).data, operation.metadata)))

\* Vault.edit
VaultEdit(rt, d, filePath, operation) ==
    LET g == resolveSafe(rt, filePath)
    IN  IF g.threw THEN Escaped(d, <<>>)
        ELSE IF ~IsFile(d, g.path) THEN Ended("error", d, 1, <<g.path>>)
        ELSE LET r == EditResult(readFile(d, g.path), extname(filePath) = ".md", operation)
             IN  IF r.threw THEN Ended("error", d, 1, <<g.path>>)
                 ELSE Ended("ok", writeFile(d, g.path, r.text), 2, <<g.path>>)

----------------------------------------------------------------------------
(* The guard specification: one vault call against a disk that also holds  *)
(* entries outside the vault.                                              *)

\* vault roots: a directory, the same directory given relative to the working
\* directory with a trailing separator, and the filesystem root
VaultRoots == {"/vault", "vault/", "/"}

GuardDisk ==
    <<Dir("/vault"), File("/vault/a.md", "see [[b]] x x"), Dir("/vault/s"),
      File("/vault/s/b.md", "back to [[a]]"), File("/vault/n.txt", "x"),
      Dir("/vaultfoo"), File("/vaultfoo/a.md", "secret"), File("/x", "outside")>>

PathSegs == {"..", "a.md", "s"}

\* every path of at most MaxSegs segments
SegPaths == {JoinSlash(q) : q \in UNION {[1..n -> PathSegs] : n \in 0..MaxSegs}}

\* paths with a trailing separator, absolute paths, and a sibling directory
\* whose name starts with the vault's
NamedPaths ==
    {"../x", "a/../../x", "subdir/../../..", "../vaultfoo", "../vaultfoo/a.md",
     "/vaultfoo/a.md", "/vault/a.md", "/etc/passwd", "new/", "."}

UserPaths == SegPaths \cup NamedPaths

NewNames == {"n", "../../n", "t/n"}

Contents == {"c"}

TreeDepths == {Undefined, Given(0), Given(1)}

EditOperations ==
    { EditOp("replace", "new", "", "", FALSE, ""),
      EditOp("append", "!", "", "", FALSE, ""),
      EditOp("prepend", "!", "", "", FALSE, ""),
      EditOp("find-replace", "", "x", "y", FALSE, ""),
      EditOp("find-replace", "", "x", "y", TRUE, ""),
      EditOp("find-replace", "", "zz", "y", FALSE, ""),
      EditOp("patch-frontmatter", "", "", "", FALSE, "k: v") }

InitGuard ==
    /\ root \in VaultRoots
    /\ disk = GuardDisk
    /\ InitIdle

\* the call c ended as r
Finish(c, r) ==
    /\ pc = "idle"
    /\ calls = 0
    /\ calls' = 1
    /\ call' = c
    /\ outcome' = r.outcome
    /\ disk' = r.disk
    /\ ioCalls' = r.io
    /\ resolved' = r.resolved
    /\ UNCHANGED <<root, pc, forward, fileIndex, backward, nodes, edges, queue, result,
                   inflight, http>>

List ==
    \E p \in UserPaths :
        Finish([NoCall EXCEPT !.op = "list", !.path = p], VaultList(root, disk, p))

Tree ==
    \E p \in UserPaths, n \in TreeDepths :
        Finish([NoCall EXCEPT !.op = "tree", !.path = p, !.depth = n],
               VaultTree(root, disk, p, n))

Read ==
    \E p \in UserPaths :
        Finish([NoCall EXCEPT !.op = "read", !.path = p], VaultRead(root, disk, p))

Create ==
    \E p \in UserPaths, c \in Contents :
        Finish([NoCall EXCEPT !.op = "create", !.path = p, !.arg = c],
               VaultCreate(root, disk, p, c))

Move ==
    \E p \in UserPaths, q \in UserPaths :
        Finish([NoCall EXCEPT !.op = "move", !.path = p, !.arg = q],
               VaultMove(root, disk, p, q))

Rename ==
    \E p \in UserPaths, n \in NewNames :
        Finish([NoCall EXCEPT !.op = "rename", !.path = p, !.arg = n],
               VaultRename(root, disk, p, n))

Delete ==
    \E p \in UserPaths :
        Finish([NoCall EXCEPT !.op = "delete", !.path = p], VaultDelete(root, disk, p))

Edit ==
    \E p \in UserPaths, e \in EditOperations :
        Finish([NoCall EXCEPT !.op = "edit", !.path = p, !.edit = e],
               VaultEdit(root, disk, p, e))

\* a graph request with the default options
Graph ==
    /\ calls = 0
    /\ \E index \in {buildLinkIndex(root, disk)} :
          \E path \in UserPaths : GraphCall(path, Undefined, "undefined", index)

NextGuard ==
    \/ List \/ Tree \/ Read \/ Create \/ Move \/ Rename \/ Delete \/ Edit
    \/ Graph \/ GraphVisit \/ GraphReturn

SpecGuard == InitGuard /\ [][NextGuard]_vars

----------------------------------------------------------------------------
(* Vault.surface and Vault.search.                                         *)

\* query.toLowerCase().split(/\s+/).filter(Boolean)
Terms(query) ==
    SelectSeq(SplitOn(ToLowerCase(query), {" ", "\n", "\t"}, ""), LAMBDA t : t # "")

RECURSIVE YamlItems(_)
\* the items of a block sequence: the leading lines of the form "  - item"
YamlItems(ls) ==
    IF ls = <<>> \/ ~StartsWith(Head(ls), "  - ") THEN <<>>
    ELSE <<Trim(SubSeq(Head(ls), 5, Len(Head(ls))))>> \o YamlItems(Tail(ls))

\* data[key] of the front matter gray-matter parsed, for YAML made of
\* "key: text" lines and "key:" lines followed by a block sequence
YamlField(data, key) ==
    LET ls       == SplitOn(data, {"\n"}, "")
        isKey(i) == ls[i] = key \o ":" \/ StartsWith(ls[i], key \o ": ")
    IN  IF ~\E i \in DOMAIN ls : isKey(i)
        THEN [kind |-> "none", text |-> "", items |-> <<>>]
        ELSE LET i == CHOOSE k \in DOMAIN ls : isKey(k) /\ \A j \in 1..(k - 1) : ~isKey(j)
             IN  IF ls[i] = key \o ":"
                 THEN [kind |-> "array", text |-> "",
                       items |-> YamlItems(SubSeq(ls, i + 1, Len(ls)))]
                 ELSE [kind |-> "string", items |-> <<>>,
                       text |-> Trim(SubSeq(ls[i], Len(key) + 3, Len(ls[i])))]

\* what surface takes from one file: tags, aliases, summary, fileName and
\* the text after the front matter
SurfaceDoc(file, raw) ==
    [path     |-> file.relPath,
     tags     |-> YamlField(matter(raw).data, "tags").items,
     aliases  |-> YamlField(matter(raw).data, "aliases").items,
     summary  |-> IF YamlField(matter(raw).data, "summary").kind = "string"
                  THEN Given(YamlField(matter(raw).data, "summary").text)
                  ELSE Undefined,
     fileName |-> basename(file.relPath, ".md"),
     content  |-> matter(raw).content]

\* a tag test by plain prefix
TagMatches_Prefix(t, wanted) == StartsWith(ToLowerCase(t), wanted)

\* the test surface applies to a tag: equal to the wanted tag, or below it
TagMatches(t, wanted) ==
    ToLowerCase(t) = wanted \/ StartsWith(ToLowerCase(t), wanted \o "/")

\* the tag filter: some required tag matches some tag of the document
PassesTagFilter(tags, required) ==
    \E r \in DOMAIN required :
        \E t \in DOMAIN tags : TagMatches(tags[t], ToLowerCase(required[r]))

SomeIncludes(list, term) == \E i \in DOMAIN list : Includes(ToLowerCase(list[i]), term)

\* the signals tested body first
SignalsOf_BodyFirst(doc, term) ==
    (IF Includes(ToLowerCase(doc.content), term)
     THEN <<[signal |-> "body", weight |-> 1]>> ELSE <<>>)
    \o (IF \E t \in DOMAIN doc.tags : TagMatches(doc.tags[t], term)
        THEN <<[signal |-> "tag", weight |-> 5]>> ELSE <<>>)
    \o (IF SomeIncludes(doc.aliases, term)
        THEN <<[signal |-> "alias", weight |-> 4]>> ELSE <<>>)
    \o (IF Includes(ToLowerCase(doc.fileName), term)
        THEN <<[signal |-> "filename", weight |-> 3]>> ELSE <<>>)
    \o (IF doc.summary.given /\ doc.summary.value # ""
           /\ Includes(ToLowerCase(doc.summary.value), term)
        THEN <<[signal |-> "summary", weight |-> 3]>> ELSE <<>>)

\* the signals that fire for one term, in the order they are tested
SignalsOf(doc, term) ==
    (IF \E t \in DOMAIN doc.tags : TagMatches(doc.tags[t], term)
     THEN <<[signal |-> "tag", weight |-> 5]>> ELSE <<>>)
    \o (IF SomeIncludes(doc.aliases, term)
        THEN <<[signal |-> "alias", weight |-> 4]>> ELSE <<>>)
    \o (IF Includes(ToLowerCase(doc.fileName), term)
        THEN <<[signal |-> "filename", weight |-> 3]>> ELSE <<>>)
    \o (IF doc.summary.given /\ doc.summary.value # ""
           /\ Includes(ToLowerCase(doc.summary.value), term)
        THEN <<[signal |-> "summary", weight |-> 3]>> ELSE <<>>)
    \o (IF Includes(ToLowerCase(doc.content), term)
        THEN <<[signal |-> "body", weight |-> 1]>> ELSE <<>>)

RECURSIVE Fired(_, _)
\* for (const term of terms): every firing signal with its term
Fired(doc, terms) ==
    IF terms = <<>> THEN <<>>
    ELSE [i \in DOMAIN SignalsOf(doc, Head(terms)) |->
             [signal |-> SignalsOf(doc, Head(terms))[i].signal,
              weight |-> SignalsOf(doc, Head(terms))[i].weight,
              term   |-> Head(terms)]]
         \o Fired(doc, Tail(terms))

RECURSIVE SumWeights(_)
SumWeights(fired) ==
    IF fired = <<>> THEN 0 ELSE Head(fired).weight + SumWeights(Tail(fired))

\* the SurfaceResult of a document whose signals fired
SurfaceResult(doc, fired) ==
    [path    |-> doc.path,
     score   |-> SumWeights(fired),
     tags    |-> doc.tags,
     summary |-> doc.summary,
     matchedSignals |-> [i \in DOMAIN fired |-> fired[i].signal \o ":" \o fired[i].term]]

\* the body of the loop pushing a result whatever its score
SurfaceOne_KeepZero(doc, terms, tags) ==
    IF tags.given /\ Len(tags.value) > 0 /\ ~PassesTagFilter(doc.tags, tags.value)
    THEN <<>>
    ELSE <<SurfaceResult(doc, Fired(doc, terms))>>

\* the body of the loop for one document: nothing when the tag filter
\* rejects it or no signal fires, its SurfaceResult otherwise
SurfaceOne(doc, terms, tags) ==
    IF tags.given /\ Len(tags.value) > 0 /\ ~PassesTagFilter(doc.tags, tags.value)
    THEN <<>>
    ELSE CHOOSE pushed \in {IF SumWeights(fired) > 0
                            THEN <<SurfaceResult(doc, fired)>> ELSE <<>> :
                            fired \in {Fired(doc, terms)}} : TRUE

RECURSIVE SurfaceFiles(_, _, _, _)
\* for (const file of files): the results pushed, in order
SurfaceFiles(d, files, terms, tags) ==
    IF files = <<>> THEN <<>>
    ELSE (CHOOSE pushed \in
             {SurfaceOne(doc, terms, tags) :
                 doc \in {SurfaceDoc(Head(files),
                                     readFile(d, resolve(Head(files).fullPath, "")))}} : TRUE)
         \o SurfaceFiles(d, Tail(files), terms, tags)

RECURSIVE SortByScore_Unstable(_)
\* a sort by score that puts a later result before earlier ones of its score
SortByScore_Unstable(results) ==
    IF results = <<>> THEN <<>>
    ELSE LET sorted == SortByScore_Unstable(SubSeq(results, 1, Len(results) - 1))
             last   == results[Len(results)]
             keep   == Cardinality({i \in DOMAIN sorted : sorted[i].score > last.score})
         IN  SubSeq(sorted, 1, keep) \o <<last>> \o SubSeq(sorted, keep + 1, Len(sorted))

RECURSIVE SortByScore(_)
\* results.sort((a, b) => b.score - a.score): stable, highest score first
SortByScore(results) ==
    IF results = <<>> THEN <<>>
    ELSE LET sorted == SortByScore(SubSeq(results, 1, Len(results) - 1))
             last   == results[Len(results)]
             keep   == Cardinality({i \in DOMAIN sorted : sorted[i].score >= last.score})
         IN  SubSeq(sorted, 1, keep) \o <<last>> \o SubSeq(sorted, keep + 1, Len(sorted))

\* Array.prototype.slice(0, end) for an integer end
Slice(seq, end) ==
    LET len   == Len(seq)
        final == IF end < 0 THEN (IF len + end > 0 THEN len + end ELSE 0)
                 ELSE IF end < len THEN end ELSE len
    IN  SubSeq(seq, 1, final)

\* options.limit ?? 10
LimitOf(options) == IF options.limit.given THEN options.limit.value ELSE 10

\* every directory is scanned, whatever options.path is
StartDir_WholeVault(rt, options) == [threw |-> FALSE, path |-> rt]

\* options.path ? this.resolveSafe(options.path) : this.root
StartDir(rt, options) ==
    IF options.path.given /\ options.path.value # ""
    THEN resolveSafe(rt, options.path.value)
    ELSE [threw |-> FALSE, path |-> rt]

\* Vault.surface from startDir on: the scan, the loop, the sort and the slice
SurfaceScan(rt, d, query, options) ==
    LET g == StartDir(rt, options)
    IN  IF g.threw THEN [outcome |-> "escapes", io |-> 0, results |-> <<>>]
        ELSE IF ~IsDir(d, resolve(g.path, ""))
             THEN [outcome |-> "error", io |-> 1, results |-> <<>>]
        ELSE CHOOSE r \in
                {[outcome |-> "ok",
                  io      |-> ScanReaddirs(d, resolve(g.path, "")) + Len(files),
                  results |-> Slice(SortByScore(
                                 SurfaceFiles(d, files, Terms(query), options.tags)),
                                 LimitOf(options))] :
                 files \in {collectMarkdownFiles(rt, d, g.path)}} : TRUE

\* surface without the return on an empty list of terms
VaultSurface_ScanFirst(rt, d, query, options) == SurfaceScan(rt, d, query, options)

\* Vault.surface: how it ends, the filesystem calls it issued and what it
\* returned
VaultSurface(rt, d, query, options) ==
    IF Terms(query) = <<>> THEN [outcome |-> "ok", io |-> 0, results |-> <<>>]
    ELSE SurfaceScan(rt, d, query, options)

\* the lines that hold query in the case it was given
MatchingLines_CaseSensitive(content, query) ==
    LET hits == SelectSeq(SplitOn(content, {"\n"}, ""), LAMBDA line : Includes(line, query))
    IN  [i \in DOMAIN hits |-> Trim(hits[i])]

\* the lines of content that hold query, trimmed
MatchingLines(content, query) ==
    LET hits == SelectSeq(SplitOn(content, {"\n"}, ""),
                          LAMBDA line : Includes(ToLowerCase(line), query))
    IN  [i \in DOMAIN hits |-> Trim(hits[i])]

RECURSIVE searchDir(_, _, _, _)
RECURSIVE SearchEntries(_, _, _, _, _)

\* the loop of searchDir over the entries readdir returned
SearchEntries(rt, d, dirPath, query, entries) ==
    IF entries = <<>> THEN <<>>
    ELSE LET entry    == Head(entries)
             name     == LastSegment(entry.path)
             fullPath == join(dirPath, name)
             pushed   ==
                IF StartsWith(name, ".") THEN <<>>
                ELSE IF entry.isDir THEN searchDir(rt, d, fullPath, query)
                ELSE IF extname(name) = ".md"
                THEN CHOOSE r \in
                        {IF matches # <<>>
                         THEN <<[path    |-> relative(rt, fullPath),
                                 name    |-> basename(name, ".md"),
                                 matches |-> matches]>>
                         ELSE <<>> :
                         matches \in {MatchingLines(readFile(d, resolve(fullPath, "")),
                                                    query)}} : TRUE
                ELSE <<>>
         IN  pushed \o SearchEntries(rt, d, dirPath, query, Tail(entries))

\* Vault.searchDir: the results pushed, in order
searchDir(rt, d, dirPath, query) ==
    SearchEntries(rt, d, dirPath, query, readdir(d, resolve(dirPath, "")))

\* Vault.search
VaultSearch(rt, d, query) ==
    IF ~IsDir(d, resolve(rt, "")) THEN [outcome |-> "error", io |-> 1, results |-> <<>>]
    ELSE [outcome |-> "ok",
          io      |-> ScanReaddirs(d, resolve(rt, ""))
                      + Len(collectMarkdownFiles(rt, d, rt)),
          results |-> searchDir(rt, d, rt, ToLowerCase(query))]

----------------------------------------------------------------------------
(* The query specification: a vault of notes with front matter, and one    *)
(* surface or search call against it.                                      *)

MaxLimit == 2

\* md(frontmatter, body) of the surface tests
Md(yaml, body) == Fence \o yaml \o "\n" \o Fence \o body

QueryDisk ==
    <<Dir(VaultDir),
      File("/vault/low.md", "mentions Go once\n  go twice  \nnone"),
      Dir("/vault/p"),
      File("/vault/p/note.md", Md("tags:\n  - Go/web\n  - dotnet/api", "web project")),
      File("/vault/p/core.md", Md("tags:\n  - dotnetcore\nsummary: go core", "core text")),
      File("/vault/go.md",
           Md("tags:\n  - go\n  - api\naliases:\n  - Go Guide\nsummary: A go overview",
              "Learn go here")),
      File("/vault/api.md",
           Md("tags: go\nsummary:\n  - go", "nothing [[c]] [[n.txt]] [[.h/c.md]] [[z]]")),
      File("/vault/z.md", Md("", "GO go")),
      File("/vault/n.txt", "go [[z]]"),
      Dir("/vault/.h"),
      File("/vault/.h/c.md", Md("tags:\n  - go", "hidden go [[low]]"))>>

Queries == {"go", "", " \n ", "dotnet api", "Core GO", "zzz", "web"}

PathOptions ==
    {Undefined, Given(""), Given("p"), Given(".h"), Given("../x"), Given("low.md")}

TagOptions == {Undefined, Given(<<>>), Given(<<"dotnet">>), Given(<<"GO", "x">>)}

LimitOptions == {Undefined} \cup {Given(n) : n \in (0 - 1)..MaxLimit}

InitQuery ==
    /\ root \in {VaultDir, "vault/"}
    /\ disk = QueryDisk
    /\ InitIdle

\* the query call c returned r
Answer(c, r) ==
    /\ pc = "idle"
    /\ calls = 0
    /\ calls' = 1
    /\ call' = c
    /\ outcome' = r.outcome
    /\ ioCalls' = r.io
    /\ result' = r.results
    /\ UNCHANGED <<root, disk, resolved, pc, forward, fileIndex, backward, nodes, edges, queue,
                   inflight, http>>

Surface ==
    \E q \in Queries, p \in PathOptions, t \in TagOptions, l \in LimitOptions :
        \E options \in {[path |-> p, tags |-> t, limit |-> l]} :
            Answer([op |-> "surface", query |-> q, options |-> options],
                   VaultSurface(root, disk, q, options))

Search ==
    \E q \in Queries \cup {"GO", "api"} :
        Answer([op |-> "search", query |-> q], VaultSearch(root, disk, q))

NotePaths == {"api.md", "low.md", ".h/c.md", "n.txt", "../x"}

\* a graph request on the vault of notes
GraphOfNotes ==
    /\ calls = 0
    /\ \E index \in {buildLinkIndex(root, disk)} :
          \E path \in NotePaths, depth \in Depths, direction \in Directions :
             GraphCall(path, depth, direction, index)

\* a surface call whose scan listed a file that is gone when the loop comes
\* to read it: the i-th readFile rejects and surface, which catches nothing,
\* rejects with it
SurfaceRaced ==
    /\ pc = "idle"
    /\ calls = 0
    /\ \E q \in Queries, p \in PathOptions :
          \E options \in {[path |-> p, tags |-> Undefined, limit |-> Undefined]} :
             /\ Terms(q) # <<>>
             /\ call' = [op |-> "surface", query |-> q, options |-> options]
             /\ \E g \in {StartDir(root, options)} :
                   /\ ~g.threw
                   /\ IsDir(disk, resolve(g.path, ""))
                   /\ \E files \in {collectMarkdownFiles(root, disk, g.path)} :
                         \E i \in DOMAIN files :
                            /\ disk' = Remove(disk, resolve(files[i].fullPath, ""))
                            /\ ioCalls' = ScanReaddirs(disk, resolve(g.path, "")) + i
    /\ calls' = 1
    /\ outcome' = "error"
    /\ result' = <<>>
    /\ UNCHANGED <<root, resolved, pc, forward, fileIndex, backward, nodes, edges, queue,
                   inflight, http>>

\* a graph call whose scan listed a file that is gone when buildLinkIndex
\* comes to read it: the i-th readFile rejects and graph rejects with it
GraphRaced ==
    /\ pc = "idle"
    /\ calls = 0
    /\ \E path \in NotePaths :
          /\ call' = [NoCall EXCEPT !.op = "graph", !.path = path]
          /\ \E g \in {resolveSafe(root, path)} :
                /\ ~g.threw
                /\ IsDir(disk, resolve(root, ""))
                /\ resolved' = <<g.path>>
                /\ \E files \in {collectMarkdownFiles(root, disk, root)} :
                      \E i \in DOMAIN files :
                         /\ disk' = Remove(disk, resolve(files[i].fullPath, ""))
                         /\ ioCalls' = ScanReaddirs(disk, resolve(root, "")) + i
    /\ calls' = calls + 1
    /\ outcome' = "error"
    /\ result' = NoResult
    /\ pc' = "failed"
    /\ UNCHANGED <<root, forward, fileIndex, backward, nodes, edges, queue, inflight, http>>

NextQuery ==
    \/ Surface \/ Search \/ GraphOfNotes \/ GraphVisit \/ GraphReturn
    \/ SurfaceRaced \/ GraphRaced

SpecQuery == InitQuery /\ [][NextQuery]_vars

----------------------------------------------------------------------------
(* Query calls side by side.  Each call is an async function: it runs to   *)
(* its next await, and calls in flight take turns at those points.  A call *)
(* awaits its directory scan, then one readFile per scanned file; what it  *)
(* does between two awaits is one step.  The disk does not change.         *)

\* most calls in flight at once
MaxTasks == 2

RECURSIVE RunBfs(_, _, _, _)
\* while (queue.length > 0), to the end
RunBfs(fw, bw, c, st) ==
    IF st.queue = <<>> THEN st
    ELSE LET current == Head(st.queue)
             st0     == [st EXCEPT !.queue = Tail(st.queue)]
         IN  RunBfs(fw, bw, c,
                    IF Expands(current, DepthOf(c))
                    THEN Expand(Neighbors(fw, bw, DirectionOf(c), current.path),
                                current.path, current.depth + 1, st0)
                    ELSE st0)

\* Vault.graph from the backward map on, given the forward map and the
\* file index buildLinkIndex returned
GraphFrom(rootPath, c, fw, fIndex) ==
    LET st == RunBfs(fw, BuildBackward(fw, <<>>), c,
                     [nodes |-> <<<<rootPath, 0>>>>, edges |-> <<>>,
                      queue |-> <<[path |-> rootPath, depth |-> 0]>>])
    IN  GraphResult(rootPath, st.nodes, st.edges, fIndex)

AsyncCalls ==
    { [op |-> "surface", query |-> "go",
       options |-> [path |-> Undefined, tags |-> Undefined, limit |-> Given(2)]],
      [op |-> "surface", query |-> "web",
       options |-> [path |-> Given("p"), tags |-> Undefined, limit |-> Undefined]],
      [op |-> "surface", query |-> " \n ",
       options |-> [path |-> Given("../x"), tags |-> Undefined, limit |-> Undefined]],
      [op |-> "search", query |-> "GO"],
      [NoCall EXCEPT !.op = "graph", !.path = "api.md", !.depth = Given(2)] }

\* a call is made: it runs to its first await, the readdir of its scan.
\* Its locals are where it stands, the files its scan listed, those still
\* to read, what it has accumulated and what it returned
Begin ==
    /\ Len(inflight) < MaxTasks
    /\ \E c \in AsyncCalls :
          LET Task(call_, pcT, startDir) ==
                 [call |-> call_, pc |-> pcT, startDir |-> startDir, scanned |-> <<>>,
                  todo |-> <<>>, acc |-> <<>>, result |-> <<>>]
          IN
          inflight' = Append(inflight,
              IF c.op = "surface"
              THEN IF Terms(c.query) = <<>> THEN Task(c, "done", "")
                   ELSE IF StartDir(root, c.options).threw THEN Task(c, "failed", "")
                   ELSE Task(c, "scan", StartDir(root, c.options).path)
              ELSE IF c.op = "graph" /\ resolveSafe(root, c.path).threw
                   THEN Task(c, "failed", "")
                   ELSE Task(c, "scan", root))
    /\ UNCHANGED <<root, disk, calls, call, outcome, resolved, ioCalls,
                   pc, forward, fileIndex, backward, nodes, edges, queue, result,
                   http>>

\* the scan of call id is through: its files are listed in scan order
\* (searchDir meets the files in the order collectMarkdownFiles lists them)
Scan ==
    /\ \E id \in DOMAIN inflight :
          /\ inflight[id].pc = "scan"
          /\ \E files \in {collectMarkdownFiles(root, disk, inflight[id].startDir)} :
                inflight' = [inflight EXCEPT ![id].pc = "read",
                                             ![id].scanned = files,
                                             ![id].todo = files]
    /\ UNCHANGED <<root, disk, calls, call, outcome, resolved, ioCalls,
                   pc, forward, fileIndex, backward, nodes, edges, queue, result,
                   http>>

\* what the call's loop adds for one file it read
Pushed(t, file, raw) ==
    CASE t.call.op = "surface" ->
            SurfaceOne(SurfaceDoc(file, raw), Terms(t.call.query), t.call.options.tags)
      [] t.call.op = "search" ->
            (CHOOSE r \in
                {IF matches # <<>>
                 THEN <<[path    |-> file.relPath,
                         name    |-> basename(LastSegment(file.fullPath), ".md"),
                         matches |-> matches]>>
                 ELSE <<>> :
                 matches \in {MatchingLines(raw, ToLowerCase(t.call.query))}} : TRUE)
      [] t.call.op = "graph" ->
            << <<file.relPath,
                 ResolveAll(parseWikilinks(raw), BuildFileIndex(t.scanned, <<>>))>> >>

\* one accumulator for all the calls of an operation, as a field of the
\* Vault would be
Push_Shared(tasks, id, pushed) ==
    [k \in DOMAIN tasks |->
        IF tasks[k].call.op = tasks[id].call.op /\ tasks[k].pc # "done"
        THEN [tasks[k] EXCEPT !.acc = @ \o pushed] ELSE tasks[k]]

\* results.push / forward.set on the call's own local
Push(tasks, id, pushed) == [tasks EXCEPT ![id].acc = @ \o pushed]

\* a readFile of call id is through and its loop body runs
ReadNext ==
    /\ \E id \in DOMAIN inflight :
          /\ inflight[id].pc = "read"
          /\ inflight[id].todo # <<>>
          /\ \E file \in {Head(inflight[id].todo)} :
                \E pushed \in {Pushed(inflight[id], file,
                                      readFile(disk, resolve(file.fullPath, "")))} :
                   inflight' = [Push(inflight, id, pushed) EXCEPT ![id].todo = Tail(@)]
    /\ UNCHANGED <<root, disk, calls, call, outcome, resolved, ioCalls,
                   pc, forward, fileIndex, backward, nodes, edges, queue, result,
                   http>>

\* the loop of call id is over: the call runs to its return
Settle ==
    /\ \E id \in DOMAIN inflight :
          /\ inflight[id].pc = "read"
          /\ inflight[id].todo = <<>>
          /\ \E t \in {inflight[id]} :
                inflight' = [inflight EXCEPT
                    ![id].pc = "done",
                    ![id].result =
                        CASE t.call.op = "surface" ->
                                Slice(SortByScore(t.acc), LimitOf(t.call.options))
                          [] t.call.op = "search" -> t.acc
                          [] t.call.op = "graph" ->
                                GraphFrom(relative(root, resolveSafe(root, t.call.path).path),
                                          t.call, t.acc, BuildFileIndex(t.scanned, <<>>))]
    /\ UNCHANGED <<root, disk, calls, call, outcome, resolved, ioCalls,
                   pc, forward, fileIndex, backward, nodes, edges, queue, result,
                   http>>

InitAsync ==
    /\ root = VaultDir
    /\ disk = QueryDisk
    /\ InitIdle

NextAsync == Begin \/ Scan \/ ReadNext \/ Settle

SpecAsync == InitAsync /\ [][NextAsync]_vars

----------------------------------------------------------------------------
(* The HTTP entry point and its table of sessions.                         *)

MaxSessions == 2

\* the ids crypto.randomUUID hands out, in order; no two are the same
SessionIds == <<"s1", "s2", "s3", "s4">>

\* what a request to /mcp can be: the mcp-session-id header is absent, empty,
\* or names an id; the body is an initialize request, some other JSON, or
\* not JSON at all
HttpRequests ==
    [method : {"POST", "GET", "DELETE"},
     sessionId : {Undefined, Given("")}
                 \cup {Given(SessionIds[i]) : i \in 1..Len(SessionIds)},
     body : {"initialize", "other", "malformed"}]

\* handleMcp, one request from arrival to its answer: "transport" when a
\* session's transport answers, "400" for the Bad Request response,
\* "rejects" when the handler's promise rejects
HandleMcp ==
    \E req \in HttpRequests :
        LET sessionId == req.sessionId
            truthy == sessionId.given /\ sessionId.value # ""
            id == SessionIds[http.issued + 1]
            found == [http EXCEPT !.before = http.sessions, !.request = req]
        IN  /\ http' =
                IF truthy /\ sessionId.value \in http.sessions
                THEN IF req.method = "DELETE"
                     THEN \* onsessionclosed: sessions.delete(id)
                          [found EXCEPT !.sessions = @ \ {sessionId.value},
                                        !.closed = @ \cup {sessionId.value},
                                        !.answer = "transport"]
                     ELSE [found EXCEPT !.answer = "transport"]
                ELSE IF ~truthy /\ req.method = "POST"
                THEN IF req.body = "malformed"
                     THEN \* await req.json() throws
                          [found EXCEPT !.answer = "rejects"]
                     ELSE IF req.body = "initialize"
                     THEN \* onsessioninitialized: sessions.set(id, transport)
                          [found EXCEPT !.sessions = @ \cup {id},
                                        !.issued = @ + 1,
                                        !.answer = "transport"]
                     ELSE [found EXCEPT !.answer = "400"]
                ELSE [found EXCEPT !.answer = "400"]
            /\ http'.issued <= MaxSessions
            /\ UNCHANGED <<root, disk, calls, call, outcome, resolved, ioCalls,
                           pc, forward, fileIndex, backward, nodes, edges, queue,
                           result, inflight>>

InitHttp ==
    /\ root = VaultDir
    /\ disk = QueryDisk
    /\ InitIdle

NextHttp == HandleMcp

SpecHttp == InitHttp /\ [][NextHttp]_vars

----------------------------------------------------------------------------
(* Path containment, stated on path segments.                              *)

IsSeqPrefix(p, s) == Len(p) <= Len(s) /\ SubSeq(s, 1, Len(p)) = p

\* the segments of the normalized absolute form of userPath under the root
AbsSegs(userPath) == NormalizeSegs(Segments(resolve(root, userPath)), <<>>, FALSE)

\* the normalized absolute form is the root or a descendant of it
Inside(userPath) == IsSeqPrefix(AbsSegs(""), AbsSegs(userPath))

Outside(userPath) == ~Inside(userPath)

\* the form lies in or below a sibling of the root whose name starts with
\* the root's name and is longer
InLookalikeSibling(userPath) ==
    LET r == AbsSegs("")
        t == AbsSegs(userPath)
    IN  /\ r # <<>>
        /\ Len(t) >= Len(r)
        /\ SubSeq(t, 1, Len(r) - 1) = SubSeq(r, 1, Len(r) - 1)
        /\ t[Len(r)] # r[Len(r)]
        /\ StartsWith(t[Len(r)], r[Len(r)])

OnePathOps == {"list", "tree", "read", "create", "delete", "edit", "graph"}

\* what resolveSafe returned is the root or begins with the root and "/"
UnderRoot(p) == p = resolve(root, "") \/ StartsWith(p, resolve(root, "") \o "/")

\* the destination Vault.rename builds from the file's directory, the new
\* name and the file's extension
RenameDest(filePath, newName) ==
    join(dirname(filePath),
         IF extname(filePath) # "" THEN newName \o extname(filePath) ELSE newName)

\* some path argument of the call c normalizes outside the root
Escaping(c) ==
    \/ c.op \in OnePathOps /\ Outside(c.path)
    \/ c.op = "move" /\ (Outside(c.path) \/ Outside(c.arg))
    \/ c.op = "rename"
       /\ (Outside(c.path) \/ Outside(RenameDest(c.path, c.arg)))

----------------------------------------------------------------------------
(* Claims on the path guard, stated under SpecGuard.                       *)

\* C1: a user path whose normalized absolute form lies outside the vault
\* root is refused with 'Path escapes vault root'; a path that stays inside
\* is accepted, and what resolveSafe returns is the root itself or begins
\* with the root followed by a path separator.
C1_GuardMatchesContainment ==
    (call.op \in OnePathOps) =>
        /\ Outside(call.path) => outcome = "escapes"
        /\ Inside(call.path) =>
              /\ outcome # "escapes"
              /\ resolved # <<>>
              /\ UnderRoot(resolved[1])

\* C1, for a vault root other than the filesystem root
C1_GuardBelowFilesystemRoot ==
    (call.op \in OnePathOps /\ resolve(root, "") # "/") =>
        /\ Outside(call.path) => outcome = "escapes"
        /\ Inside(call.path) =>
              /\ outcome # "escapes"
              /\ resolved # <<>>
              /\ UnderRoot(resolved[1])

\* C2: a call of any path-taking operation with an argument that normalizes
\* outside the vault root ends with 'Path escapes vault root', issues no
\* filesystem call and leaves the disk as it was; this covers move's
\* destination and the destination rename builds from newName.
C2_EscapeTouchesNothing ==
    [][\A c \in {call'} :
          (calls' = calls + 1 /\ Escaping(c))
             => (/\ outcome' = "escapes"
                 /\ ioCalls' = 0
                 /\ disk' = disk
                 /\ pc' \in {"idle", "failed"})]_vars

\* C2 witness: a move of an existing file to an escaping destination, refused
C2_Witness ==
    /\ call.op = "move"
    /\ Inside(call.path)
    /\ Outside(call.arg)
    /\ IsFile(disk, resolve(root, call.path))
    /\ outcome = "escapes"

\* C3: a path that resolves into a sibling of the root whose name merely
\* starts with the root's name is refused, and the empty string is accepted
\* and resolves to the vault root itself.
C3_SeparatorBoundary ==
    (call.op \in OnePathOps) =>
        /\ InLookalikeSibling(call.path) => outcome = "escapes"
        /\ call.path = "" => outcome # "escapes" /\ resolved = <<resolve(root, "")>>

\* C3 witness: the sibling 'vaultfoo' of the root 'vault' was asked for and refused
C3_Witness ==
    /\ call.op = "read"
    /\ resolve(root, "") = "/vault"
    /\ resolve(root, call.path) = "/vaultfoo"
    /\ outcome = "escapes"

----------------------------------------------------------------------------
(* The link graph a query walks, stated on the corpus and the forward map. *)

Range(seq) == {seq[i] : i \in DOMAIN seq}

\* the corpus: the vault-relative paths of the .md files under the root
\* that no dot-prefixed name hides
Documents ==
    {relative(root, disk[i].path) :
        i \in {j \in DOMAIN disk :
                 /\ ~disk[j].isDir
                 /\ disk[j].path # resolve(root, "")
                 /\ Inside(disk[j].path)
                 /\ extname(disk[j].path) = ".md"
                 /\ \A seg \in Range(Segments(relative(root, disk[j].path))) :
                       ~StartsWith(seg, ".")}}

\* the path the query starts from, relative to the vault
StartPath == relative(root, resolve(root, call.path))

\* the depth limit and the direction asked for, with their defaults
HopLimit == IF call.depth.given THEN call.depth.value ELSE 1

FollowsForward == call.direction \in {"undefined", "forward", "both"}

FollowsBackward == call.direction \in {"undefined", "backward", "both"}

LinksOf(p) == IF MapHas(forward, p) THEN Range(MapGet(forward, p)) ELSE {}

LinkersOf(p) == {src \in MapKeys(forward) : p \in LinksOf(src)}

\* one hop from p in the direction asked for
Adjacent(p) ==
    (IF FollowsForward THEN LinksOf(p) ELSE {})
    \cup (IF FollowsBackward THEN LinkersOf(p) ELSE {})

RECURSIVE Within(_)
\* the paths at most k hops from the start
Within(k) ==
    IF k < 0 THEN {}
    ELSE IF k = 0 THEN {StartPath}
    ELSE UNION {w \cup UNION {Adjacent(u) : u \in w} : w \in {Within(k - 1)}}

HasDepth(ns, p, d) == \E i \in DOMAIN ns : ns[i].path = p /\ ns[i].depth = d

NoDuplicates(seq) == \A i, j \in DOMAIN seq : i # j => seq[i] # seq[j]

----------------------------------------------------------------------------
(* Claims on the link-graph query, stated under Spec.                      *)

C5_ExistsIffDocument ==
    pc = "done" =>
        \A i \in DOMAIN result.nodes :
            result.nodes[i].exists <=> result.nodes[i].path \in Documents

\* C6: the edge list never holds two edges with the same (source, target)
\* pair, while the walk runs and in the result.
C6_NoDuplicateEdges == NoDuplicates(edges) /\ NoDuplicates(result.edges)

\* C6 witness: an expanded document names the same target twice and the
\* result holds the edge
C6_Witness ==
    /\ pc = "done"
    /\ FollowsForward
    /\ \E i \in DOMAIN forward :
          /\ \E d \in 0..(HopLimit - 1) : HasDepth(result.nodes, forward[i][1], d)
          /\ \E a, b \in DOMAIN forward[i][2] :
                /\ a # b
                /\ forward[i][2][a] = forward[i][2][b]
                /\ Edge(forward[i][1], forward[i][2][a]) \in Range(result.edges)

\* every node recorded so far is exactly as many hops from the start as
\* its depth says
DepthIsHopCount ==
    pc \in {"bfs", "done"} =>
        \A i \in DOMAIN nodes :
            /\ nodes[i][1] \in Within(nodes[i][2])
            /\ nodes[i][1] \notin Within(nodes[i][2] - 1)

\* a step of the walk keeps every depth already given and queues only
\* paths that had no depth, each once
DepthsKept ==
    pc = "bfs" =>
        /\ Len(nodes') >= Len(nodes)
        /\ \A i \in DOMAIN nodes : nodes'[i] = nodes[i]
        /\ \A j \in DOMAIN queue' :
              j >= Len(queue) =>
                 /\ queue'[j].path \notin MapKeys(nodes)
                 /\ \A k \in DOMAIN queue' : k # j => queue'[k].path # queue'[j].path

\* C7: the depth of a node is the least number of hops from the root along
\* the direction asked for; a depth once given never changes and a path
\* that has a depth is never queued again.
C7_DepthIsShortestHopCount == []DepthIsHopCount /\ [][DepthsKept]_vars

\* C7 witness: a node one hop from the root is also linked from another
\* node one hop from the root, a longer way the walk saw and left alone
C7_Witness ==
    /\ pc = "done"
    /\ HopLimit >= 2
    /\ \E i \in DOMAIN result.edges :
          /\ result.edges[i].source # result.edges[i].target
          /\ HasDepth(result.nodes, result.edges[i].source, 1)
          /\ HasDepth(result.nodes, result.edges[i].target, 1)

\* C8: the result holds no node deeper than the depth limit, holds every
\* path within that many hops of the root, and holds no edge and no node
\* that only expanding a node at the limit would give.
C8_DepthLimitBoundsTheWalk ==
    pc = "done" =>
        /\ \A i \in DOMAIN result.nodes : result.nodes[i].depth <= HopLimit
        /\ {result.nodes[i].path : i \in DOMAIN result.nodes} = Within(HopLimit)
        /\ \A i \in DOMAIN result.edges :
              \/ result.edges[i].source \in Within(HopLimit - 1)
              \/ result.edges[i].target \in Within(HopLimit - 1)

\* C8 witness: a node at the limit has a neighbour the result leaves out
C8_Witness ==
    /\ pc = "done"
    /\ HopLimit >= 1
    /\ \E i \in DOMAIN result.nodes :
          /\ result.nodes[i].depth = HopLimit
          /\ \E n \in Adjacent(result.nodes[i].path) :
                \A j \in DOMAIN result.nodes : result.nodes[j].path # n

\* C9: a root that links to itself is one node at depth 0 with one edge
\* (root, root), for every direction and every depth limit of 1 or more;
\* when it links only to itself and no other document links to it, that
\* node and that edge are the whole result.
C9_SelfLinkOnce ==
    (pc = "done" /\ HopLimit >= 1 /\ StartPath \in LinksOf(StartPath)) =>
        /\ Cardinality({i \in DOMAIN result.nodes : result.nodes[i].path = StartPath}) = 1
        /\ HasDepth(result.nodes, StartPath, 0)
        /\ Cardinality({i \in DOMAIN result.edges :
                           result.edges[i] = Edge(StartPath, StartPath)}) = 1
        /\ (LinksOf(StartPath) = {StartPath} /\ LinkersOf(StartPath) = {StartPath})
              => Len(result.nodes) = 1 /\ Len(result.edges) = 1

\* C9 witness: a root linking only to itself, walked both ways two deep
C9_Witness ==
    /\ pc = "done"
    /\ call.depth = Given(2)
    /\ call.direction = "both"
    /\ LinksOf(StartPath) = {StartPath}
    /\ LinkersOf(StartPath) = {StartPath}
    /\ Len(result.nodes) = 1
    /\ result.edges = <<Edge(StartPath, StartPath)>>

\* the link tokens of document p, read from the disk
TokensOf(p) == Range(parseWikilinks(readFile(disk, resolve(root, p))))

Dangling(token) == resolveWikilink(token, fileIndex).isNull

\* C10: a token that resolves to no document is reported under its literal
\* text: when the document holding it is expanded forward, the result has
\* the edge to the token and a node for it with exists false; no node named
\* by a dangling token ever has exists true.
C10_DanglingPlaceholder ==
    pc = "done" =>
        /\ \A i \in DOMAIN result.nodes :
              (/\ FollowsForward
               /\ result.nodes[i].depth < HopLimit
               /\ result.nodes[i].path \in Documents) =>
                  \A t \in TokensOf(result.nodes[i].path) :
                      Dangling(t) =>
                          /\ Edge(result.nodes[i].path, t) \in Range(result.edges)
                          /\ \E j \in DOMAIN result.nodes :
                                result.nodes[j].path = t /\ ~result.nodes[j].exists
        /\ \A j \in DOMAIN result.nodes :
              (result.nodes[j].exists /\ Dangling(result.nodes[j].path)) =>
                  \A p \in Documents : result.nodes[j].path \notin TokensOf(p)

\* C10 witness: the root document holds a dangling token and the result
\* reports it one hop away with exists false
C10_Witness ==
    /\ pc = "done"
    /\ StartPath \in Documents
    /\ \E t \in TokensOf(StartPath) :
          /\ Dangling(t)
          /\ t \notin Documents
          /\ Edge(StartPath, t) \in Range(result.edges)
          /\ \E j \in DOMAIN result.nodes :
                result.nodes[j] = [path |-> t, depth |-> 1, exists |-> FALSE]

\* the token without a trailing .md, in any case
StemOf(token) ==
    IF EndsWith(ToLowerCase(token), ".md") THEN SubSeq(token, 1, Len(token) - 3) ELSE token

\* C11: a token with a path separator resolves to the corpus document whose
\* relative path equals the token (minus a trailing .md) plus ".md" without
\* regard to case, whenever the corpus holds such a document, and the path
\* returned is the one on disk; a token without a separator resolves to a
\* document whose lower-cased basename is the lower-cased token, or to null
\* when there is none.
C11_ResolverFindsDocuments ==
    pc \in {"bfs", "done"} =>
        \A d \in Documents :
            \A t \in TokensOf(d) :
                \E r \in {resolveWikilink(t, fileIndex)} :
                    IF IncludesChar(t, "/")
                    THEN (\E p \in Documents :
                              ToLowerCase(p) = ToLowerCase(StemOf(t) \o ".md"))
                            => /\ ~r.isNull
                               /\ r.path \in Documents
                               /\ ToLowerCase(r.path) = ToLowerCase(StemOf(t) \o ".md")
                    ELSE IF \E p \in Documents :
                               ToLowerCase(basename(p, ".md")) = ToLowerCase(StemOf(t))
                         THEN /\ ~r.isNull
                              /\ r.path \in Documents
                              /\ ToLowerCase(basename(r.path, ".md")) = ToLowerCase(StemOf(t))
                         ELSE r.isNull

\* C11, for the tokens that hold no path separator
C11_BasenameTokensResolve ==
    pc \in {"bfs", "done"} =>
        \A d \in Documents :
            \A t \in TokensOf(d) :
                \E r \in {resolveWikilink(t, fileIndex)} :
                    ~IncludesChar(t, "/") =>
                        IF \E p \in Documents :
                              ToLowerCase(basename(p, ".md")) = ToLowerCase(StemOf(t))
                        THEN /\ ~r.isNull
                             /\ r.path \in Documents
                             /\ ToLowerCase(basename(r.path, ".md")) = ToLowerCase(StemOf(t))
                        ELSE r.isNull

\* how many times x occurs in seq
Count(seq, x) == Cardinality({i \in DOMAIN seq : seq[i] = x})

ListOf(m, k) == IF MapHas(m, k) THEN MapGet(m, k) ELSE <<>>

\* C12: the backward map is the inverse of the forward map with
\* multiplicity: s occurs in backward[t] as often as t occurs in forward[s],
\* and backward holds no source and no pair that forward does not.
C12_BackwardIsInverse ==
    pc \in {"bfs", "done"} =>
        /\ NoDuplicates([i \in DOMAIN backward |-> backward[i][1]])
        /\ \A s \in MapKeys(forward) :
              \A t \in Range(MapGet(forward, s)) \cup MapKeys(backward) :
                  Count(ListOf(backward, t), s) = Count(MapGet(forward, s), t)
        /\ \A t \in MapKeys(backward) :
              /\ MapGet(backward, t) # <<>>
              /\ Range(MapGet(backward, t)) \subseteq MapKeys(forward)

\* C12 witness: a document names one target twice and the target's
\* backward list holds the document twice
C12_Witness ==
    /\ pc = "bfs"
    /\ \E s \in MapKeys(forward) :
          \E t \in Range(MapGet(forward, s)) :
              /\ Count(MapGet(forward, s), t) = 2
              /\ Count(ListOf(backward, t), s) = 2

----------------------------------------------------------------------------
(* The notes of the query vault as their authors meant them, in the order  *)
(* a scan of the whole vault meets them.                                   *)

Note(path, tags, aliases, summary, body) ==
    [path |-> path, tags |-> tags, aliases |-> aliases, summary |-> summary, body |-> body]

Notes ==
    <<Note("low.md", <<>>, <<>>, "", "mentions Go once\n  go twice  \nnone"),
      Note("p/note.md", <<"Go/web", "dotnet/api">>, <<>>, "", "web project"),
      Note("p/core.md", <<"dotnetcore">>, <<>>, "go core", "core text"),
      Note("go.md", <<"go", "api">>, <<"Go Guide">>, "A go overview", "Learn go here"),
      Note("api.md", <<>>, <<>>, "", "nothing [[c]] [[n.txt]] [[.h/c.md]] [[z]]"),
      Note("z.md", <<>>, <<>>, "", "GO go"),
      Note(".h/c.md", <<"go">>, <<>>, "", "hidden go [[low]]")>>

NoteAt(path) == Notes[CHOOSE i \in DOMAIN Notes : Notes[i].path = path]

ScanIndex(path) == CHOOSE i \in DOMAIN Notes : Notes[i].path = path

\* text holds part without regard to case
Holds(text, part) ==
    \E i \in 1..(Len(text) - Len(part) + 1) :
        ToLowerCase(SubSeq(text, i, i + Len(part) - 1)) = ToLowerCase(part)

\* tag is wanted itself or lies below it in the tag hierarchy
TagUnder(tag, wanted) ==
    \/ ToLowerCase(tag) = ToLowerCase(wanted)
    \/ /\ Len(tag) > Len(wanted)
       /\ ToLowerCase(SubSeq(tag, 1, Len(wanted) + 1)) = ToLowerCase(wanted) \o "/"

SignalOrder == <<"tag", "alias", "filename", "summary", "body">>

WeightOf(signal) ==
    CASE signal = "tag" -> 5
      [] signal = "alias" -> 4
      [] signal = "filename" -> 3
      [] signal = "summary" -> 3
      [] signal = "body" -> 1

\* the signal fires for the note and the term
Fires(n, signal, term) ==
    CASE signal = "tag" -> \E i \in DOMAIN n.tags : TagUnder(n.tags[i], term)
      [] signal = "alias" -> \E i \in DOMAIN n.aliases : Holds(n.aliases[i], term)
      [] signal = "filename" -> Holds(basename(n.path, ".md"), term)
      [] signal = "summary" -> Holds(n.summary, term)
      [] signal = "body" -> Holds(n.body, term)

\* every (term, signal) pair, term by term, the signals in their order
Pairs(terms) ==
    [k \in 1..(Len(terms) * Len(SignalOrder)) |->
        [term   |-> terms[((k - 1) \div Len(SignalOrder)) + 1],
         signal |-> SignalOrder[((k - 1) % Len(SignalOrder)) + 1]]]

FiringPairs(n, terms) ==
    SelectSeq(Pairs(terms), LAMBDA pr : Fires(n, pr.signal, pr.term))

RECURSIVE SumOf(_)
SumOf(weights) == IF weights = <<>> THEN 0 ELSE Head(weights) + SumOf(Tail(weights))

ScoreOf(n, terms) ==
    SumOf([i \in DOMAIN FiringPairs(n, terms) |-> WeightOf(FiringPairs(n, terms)[i].signal)])

Surfaced == call.op = "surface" /\ outcome = "ok"

\* the directory the call's path option names, the vault root without one
ScanStart ==
    IF call.options.path.given /\ call.options.path.value # ""
    THEN resolve(root, call.options.path.value)
    ELSE resolve(root, "")

\* the note lies below the scan start with no dot-prefixed name on the way
InScope(n) ==
    LET segs == Segments(relative(ScanStart, resolve(root, n.path)))
    IN  /\ Inside(n.path)
        /\ segs[1] # ".."
        /\ \A i \in DOMAIN segs : ~StartsWith(segs[i], ".")

TagsAsked == IF call.options.tags.given THEN call.options.tags.value ELSE <<>>

\* some required tag admits some tag of the note
Admitted(n) ==
    \E r \in DOMAIN TagsAsked : \E t \in DOMAIN n.tags : TagUnder(n.tags[t], TagsAsked[r])

LimitAsked == IF call.options.limit.given THEN call.options.limit.value ELSE 10

\* the notes the call ranks: in scope, admitted by the tag filter if there
\* is one, and with a score above 0
Positives ==
    {i \in DOMAIN Notes :
        /\ InScope(Notes[i])
        /\ TagsAsked # <<>> => Admitted(Notes[i])
        /\ ScoreOf(Notes[i], Terms(call.query)) > 0}

\* the place of note i among the ranked notes
Rank(i) ==
    1 + Cardinality({j \in Positives :
           \/ ScoreOf(Notes[j], Terms(call.query)) > ScoreOf(Notes[i], Terms(call.query))
           \/ /\ ScoreOf(Notes[j], Terms(call.query)) = ScoreOf(Notes[i], Terms(call.query))
              /\ j < i})

\* the results are the highest-ranked notes, in rank order
TopRanked == \A k \in DOMAIN result : Rank(ScanIndex(result[k].path)) = k

----------------------------------------------------------------------------
(* Claims on surface and search, stated under SpecQuery.                   *)

\* C13: for every returned document, matchedSignals is the sequence of
\* firing "<signal>:<term>" tokens, term by term in query order and within a
\* term in the order tag, alias, filename, summary, body, and score is the
\* sum of the weights 5, 4, 3, 3, 1 of those tokens.
C13_SignalsAndScore ==
    Surfaced =>
        \A i \in DOMAIN result :
            \E fired \in {FiringPairs(NoteAt(result[i].path), Terms(call.query))} :
                /\ result[i].matchedSignals
                      = [k \in DOMAIN fired |-> fired[k].signal \o ":" \o fired[k].term]
                /\ result[i].score = SumOf([k \in DOMAIN fired |-> WeightOf(fired[k].signal)])

\* C13 witness: two terms, the first firing three signals and the second
\* one, and a document firing all five signals for one term with score 16
C13_Witness ==
    /\ Surfaced
    /\ call.query = "Core GO"
    /\ \E i \in DOMAIN result :
          /\ result[i].path = "p/core.md"
          /\ result[i].matchedSignals
                = <<"filename:core", "summary:core", "body:core", "summary:go">>
          /\ result[i].score = 10
    /\ \E i \in DOMAIN result :
          /\ result[i].score = 16
          /\ result[i].matchedSignals
                = <<"tag:go", "alias:go", "filename:go", "summary:go", "body:go">>

\* C14: the results are in non-increasing order of score, and results of
\* equal score are in the order the corpus scan met their documents.
C14_SortedStable ==
    Surfaced =>
        \A i, j \in DOMAIN result :
            i < j =>
                \/ result[i].score > result[j].score
                \/ /\ result[i].score = result[j].score
                   /\ ScanIndex(result[i].path) < ScanIndex(result[j].path)

\* C14 witness: two results tie and follow a result the scan met after one
\* of them
C14_Witness ==
    /\ Surfaced
    /\ \E i, j, k \in DOMAIN result :
          /\ i < j /\ j < k
          /\ result[i].score > result[j].score
          /\ result[j].score = result[k].score
          /\ ScanIndex(result[j].path) < ScanIndex(result[i].path)
          /\ ScanIndex(result[j].path) < ScanIndex(result[k].path)

\* C15: surface never returns more than limit results (10 when the limit
\* is left out), for every numeric limit; when at least limit documents
\* score above 0 it returns exactly limit results, the highest-ranked ones.
C15_AtMostLimit ==
    Surfaced =>
        /\ Len(result) <= LimitAsked
        /\ Cardinality(Positives) >= LimitAsked => Len(result) = LimitAsked /\ TopRanked

\* C15, for a limit that is not negative
C15_NonNegativeLimit ==
    (Surfaced /\ LimitAsked >= 0) =>
        /\ Len(result) <= LimitAsked
        /\ Cardinality(Positives) >= LimitAsked => Len(result) = LimitAsked /\ TopRanked
        /\ Cardinality(Positives) < LimitAsked
              => Len(result) = Cardinality(Positives) /\ TopRanked

\* C16: every returned document has a score above 0, and a document for
\* which no signal fires for any term is never returned, whatever the tag
\* filter and the limit are.
C16_OnlyPositiveScores ==
    Surfaced =>
        \A i \in DOMAIN result :
            /\ result[i].score > 0
            /\ FiringPairs(NoteAt(result[i].path), Terms(call.query)) # <<>>

\* C16 witness: with a tag filter and a limit, a note the filter admits
\* fires no signal and is left out of a result that is not empty
C16_Witness ==
    /\ Surfaced
    /\ result # <<>>
    /\ TagsAsked # <<>>
    /\ call.options.limit.given
    /\ \E i \in DOMAIN Notes :
          /\ InScope(Notes[i])
          /\ Admitted(Notes[i])
          /\ FiringPairs(Notes[i], Terms(call.query)) = <<>>
          /\ \A k \in DOMAIN result : result[k].path # Notes[i].path

\* the query is empty or holds only whitespace
Blank(query) == \A i \in 1..Len(query) : SubSeq(query, i, i) \in {" ", "\n", "\t"}

\* C17: surface with a query that is empty or only whitespace returns an
\* empty sequence and issues no directory listing and no file read,
\* whatever the path, tags and limit options are.
C17_BlankQueryReadsNothing ==
    (call.op = "surface" /\ Blank(call.query)) =>
        /\ outcome = "ok"
        /\ result = <<>>
        /\ ioCalls = 0

\* C17 witness: a whitespace query with a path option, a tag filter and a limit
C17_Witness ==
    /\ call.op = "surface"
    /\ call.query = " \n "
    /\ call.options.path = Given("p")
    /\ call.options.tags = Given(<<"dotnet">>)
    /\ call.options.limit = Given(1)
    /\ outcome = "ok"
    /\ result = <<>>

\* C18: with a non-empty requiredTags list a document is returned only if
\* some required tag equals one of its tags without regard to case, or one
\* of its tags starts with the required tag followed by "/"; a document
\* failing the filter is left out even when its score is positive.
C18_TagFilter ==
    (Surfaced /\ TagsAsked # <<>>) =>
        \A i \in DOMAIN result : Admitted(NoteAt(result[i].path))

\* C18 witness: 'dotnet' admits the note tagged 'dotnet/api' and leaves out
\* the note tagged 'dotnetcore', whose score is positive
C18_Witness ==
    /\ Surfaced
    /\ call.query = "Core GO"
    /\ TagsAsked = <<"dotnet">>
    /\ [k \in DOMAIN result |-> result[k].path] = <<"p/note.md">>
    /\ InScope(NoteAt("p/core.md"))
    /\ ScoreOf(NoteAt("p/core.md"), Terms(call.query)) > 0

\* C19: with a path filter only documents under that subtree are returned,
\* each under its path relative to the vault root; without one the whole
\* vault is the candidate set.
C19_PathFilter ==
    Surfaced =>
        /\ \A i \in DOMAIN result :
              /\ InScope(NoteAt(result[i].path))
              /\ IsFile(disk, resolve(root, result[i].path))
        /\ ~call.options.limit.given =>
              {result[i].path : i \in DOMAIN result} = {Notes[i].path : i \in Positives}

\* C19 witness: the filter 'p' returns the notes below p under their
\* vault-relative paths while a note outside p scores higher
C19_Witness ==
    /\ Surfaced
    /\ call.query = "go"
    /\ call.options.path = Given("p")
    /\ [k \in DOMAIN result |-> result[k].path] = <<"p/note.md", "p/core.md">>
    /\ ScoreOf(NoteAt("go.md"), Terms(call.query)) = 16

\* the lines of the note's file that hold the query without regard to
\* case, trimmed
LinesHolding(path, query) ==
    LET hits == SelectSeq(SplitOn(readFile(disk, resolve(root, path)), {"\n"}, ""),
                          LAMBDA line : Holds(line, query))
    IN  [i \in DOMAIN hits |-> Trim(hits[i])]

\* the notes a scan of the whole vault meets, in its order, that have a
\* line holding the query
NotesHolding(query) ==
    SelectSeq([i \in DOMAIN Notes |-> Notes[i].path],
              LAMBDA path : /\ \A seg \in Range(Segments(path)) : ~StartsWith(seg, ".")
                            /\ LinesHolding(path, query) # <<>>)

\* C20: search returns, in corpus-scan order, exactly the documents with at
\* least one line that holds the query without regard to case; the matches
\* of a result are all such lines of its document, in line order, each
\* trimmed; a document with no such line does not appear.
C20_SearchResults ==
    (call.op = "search" /\ outcome = "ok") =>
        \E expected \in {NotesHolding(call.query)} :
            /\ Len(result) = Len(expected)
            /\ \A k \in DOMAIN result :
                  /\ result[k].path = expected[k]
                  /\ result[k].matches = LinesHolding(expected[k], call.query)

\* C20 witness: an upper-case query finds lines in either case, trimmed,
\* and leaves out the note with no such line
C20_Witness ==
    /\ call.op = "search"
    /\ call.query = "GO"
    /\ outcome = "ok"
    /\ result[1].path = "low.md"
    /\ result[1].matches = <<"mentions Go once", "go twice">>
    /\ [k \in DOMAIN result |-> result[k].path]
          = <<"low.md", "p/note.md", "p/core.md", "go.md", "api.md", "z.md">>

\* the notes a scan of the whole vault meets whose file name holds the query
NotesNamed(query) ==
    {i \in DOMAIN Notes :
        /\ \A seg \in Range(Segments(Notes[i].path)) : ~StartsWith(seg, ".")
        /\ Holds(basename(Notes[i].path, ".md"), query)}

\* C21: search matches the query against file names too: a markdown file
\* whose name holds the query without regard to case is among the results,
\* even when none of its lines holds the query.
C21_NameMatchesAreReturned ==
    (call.op = "search" /\ outcome = "ok" /\ call.query # "") =>
        \A i \in NotesNamed(call.query) :
            \E k \in DOMAIN result : result[k].path = Notes[i].path

----------------------------------------------------------------------------
(* Claims on the corpus scan, stated under SpecQuery.                      *)

\* a path, taken from the scan start, with no dot-prefixed name on the way
\* and the .md extension
Shown(rel) ==
    /\ \A seg \in Range(Segments(rel)) : ~StartsWith(seg, ".")
    /\ extname(LastSegment(rel)) = ".md"

\* the directories of the disk
Directories == {disk[i].path : i \in {j \in DOMAIN disk : disk[j].isDir}}

\* the files of the vault a scan from its root must not yield, as paths
\* from the root
Unshown ==
    {relative(root, disk[i].path) :
        i \in {j \in DOMAIN disk : /\ ~disk[j].isDir
                                   /\ Below(resolve(root, ""), disk[j].path)
                                   /\ ~Shown(relative(root, disk[j].path))}}

\* C22: the corpus scan yields only .md files with no dot-prefixed name
\* from the scan start down; a file that is hidden or lacks the extension
\* is in no search or surface result, is no resolution target and is no
\* existing node of graph.
C22_ScanSkipsHiddenAndOther ==
    /\ \A dir \in Directories :
          \A f \in Range(collectMarkdownFiles(root, disk, dir)) :
             Shown(relative(dir, f.fullPath))
    /\ (call.op = "search" /\ outcome = "ok") =>
          \A k \in DOMAIN result : Shown(result[k].path)
    /\ Surfaced =>
          \A k \in DOMAIN result :
             Shown(relative(ScanStart, resolve(root, result[k].path)))
    /\ (call.op = "graph" /\ pc \in {"bfs", "done"}) =>
          /\ MapValues(fileIndex) \cap Unshown = {}
          /\ MapKeys(forward) \cap Unshown = {}
          /\ \A i \in DOMAIN forward :
                \A t \in Range(forward[i][2]) :
                   t \in Unshown => t \in Range(parseWikilinks(
                                          readFile(disk, resolve(root, forward[i][1]))))
          /\ pc = "done" =>
                \A k \in DOMAIN result.nodes :
                   result.nodes[k].exists => result.nodes[k].path \notin Unshown

\* C22 witness: a graph from api.md reaches the text file and the hidden
\* note it names, both on disk and neither an existing node
C22_Witness ==
    /\ call.op = "graph"
    /\ pc = "done"
    /\ call.path = "api.md"
    /\ {"n.txt", ".h/c.md"} \subseteq Unshown
    /\ \E j, k \in DOMAIN result.nodes :
          /\ result.nodes[j] = [path |-> "n.txt", depth |-> 1, exists |-> FALSE]
          /\ result.nodes[k] = [path |-> ".h/c.md", depth |-> 1, exists |-> FALSE]

\* a document of the vault went away while the last call was running
Vanished == call.op \in {"surface", "graph"} /\ disk # QueryDisk

\* C23: a graph or surface query that meets a read failure on one document
\* skips the document and returns a result built from the remaining ones.
C23_ReadFailureIsSkipped ==
    Vanished =>
        /\ outcome # "error"
        /\ call.op = "surface" =>
              result = VaultSurface(root, disk, call.query, call.options).results

----------------------------------------------------------------------------
(* Claims on calls side by side, stated under SpecAsync.                   *)

\* what the call returns when it runs alone on the disk
Alone(c) ==
    CASE c.op = "surface" -> VaultSurface(root, disk, c.query, c.options).results
      [] c.op = "search" -> VaultSearch(root, disk, c.query).results
      [] c.op = "graph" ->
            GraphFrom(relative(root, resolveSafe(root, c.path).path), c,
                      buildLinkIndex(root, disk).forward,
                      buildLinkIndex(root, disk).fileIndex)

\* C24: query calls share no mutable state: however the calls in flight
\* take turns at their await points on an unchanging disk, each returns
\* what the same call returns alone, and so a repeated call returns the
\* same result.
C24_CallsAreIsolated ==
    \A id \in DOMAIN inflight :
        inflight[id].pc = "done" => inflight[id].result = Alone(inflight[id].call)

\* C24 witness: the same surface call twice in flight; the later one has
\* returned its two results while the earlier one is still reading
C24_Witness ==
    /\ Len(inflight) = 2
    /\ inflight[1].call = inflight[2].call
    /\ inflight[1].call.op = "surface"
    /\ inflight[1].pc = "read"
    /\ inflight[1].acc # <<>>
    /\ inflight[1].todo # <<>>
    /\ inflight[2].pc = "done"
    /\ Len(inflight[2].result) = 2

----------------------------------------------------------------------------
(* Claims on edit, stated under SpecGuard.                                 *)

\* the last call was a find-replace edit of a file that was there
FindReplaced ==
    /\ call.op = "edit"
    /\ call.edit.mode = "find-replace"
    /\ resolved # <<>>
    /\ IsFile(GuardDisk, resolved[1])

\* the places of text where find begins
Occurrences(text, find) ==
    {i \in 1..(Len(text) - Len(find) + 1) : SubSeq(text, i, i + Len(find) - 1) = find}

RECURSIVE Concat(_)
Concat(parts) == IF parts = <<>> THEN "" ELSE Head(parts) \o Concat(Tail(parts))

\* text with each of its characters that is the one-character find given
\* way to by
EachReplaced(text, find, by) ==
    Concat([i \in 1..Len(text) |-> IF SubSeq(text, i, i) = find THEN by ELSE SubSeq(text, i, i)])

\* C25: a find-replace edit whose find string is not in the file fails and
\* leaves the file as it was; when it is there, the first occurrence alone
\* is replaced, or every occurrence when all is true.
C25_FindReplace ==
    FindReplaced =>
        \E old \in {readFile(GuardDisk, resolved[1])}, find \in {call.edit.find} :
            IF Occurrences(old, find) = {}
            THEN /\ outcome = "error"
                 /\ ioCalls = 1
                 /\ disk = GuardDisk
            ELSE /\ outcome = "ok"
                 /\ Remove(disk, resolved[1]) = Remove(GuardDisk, resolved[1])
                 /\ \E new \in {readFile(disk, resolved[1])} :
                       IF call.edit.all
                       THEN new = EachReplaced(old, find, call.edit.replace)
                       ELSE \E i \in Occurrences(old, find) :
                               /\ \A j \in Occurrences(old, find) : i <= j
                               /\ new = SubSeq(old, 1, i - 1) \o call.edit.replace
                                        \o SubSeq(old, i + Len(find), Len(old))

\* C25 witness: of the two "x" of a.md the first alone became "y"
C25_Witness ==
    /\ FindReplaced
    /\ ~call.edit.all
    /\ outcome = "ok"
    /\ readFile(GuardDisk, resolved[1]) = "see [[b]] x x"
    /\ readFile(disk, resolved[1]) = "see [[b]] y x"

----------------------------------------------------------------------------
(* Further claims on the link-graph query, stated under Spec.              *)

\* what a token of a document stands for: the document it resolves to, or
\* the token itself when it resolves to none
TargetOf(token) ==
    IF Dangling(token) THEN token ELSE resolveWikilink(token, fileIndex).path

\* document s holds a reference that stands for t
Genuine(s, t) == s \in Documents /\ \E token \in TokensOf(s) : TargetOf(token) = t

\* C26: every edge (s, t) of a graph result is a link in its own
\* orientation: document s holds a reference whose resolution, or whose
\* literal text when it dangles, is t; a backward walk never swaps the two.
C26_EdgesAreGenuineLinks ==
    pc = "done" =>
        \E docs \in {Documents} :
            \A s \in {result.edges[i].source : i \in DOMAIN result.edges} :
                /\ s \in docs
                /\ \E targets \in {{TargetOf(token) : token \in TokensOf(s)}} :
                      \A i \in DOMAIN result.edges :
                          result.edges[i].source = s => result.edges[i].target \in targets

\* C26 witness: a backward walk returned an edge into the root from a
\* document the root does not link to
C26_Witness ==
    /\ pc = "done"
    /\ call.direction = "backward"
    /\ \E i \in DOMAIN result.edges :
          /\ result.edges[i].target = StartPath
          /\ result.edges[i].source # StartPath
          /\ Genuine(result.edges[i].source, StartPath)
          /\ ~Genuine(StartPath, result.edges[i].source)

\* every path that can become a node: the start and whatever the forward
\* map holds
Reachable ==
    {StartPath} \cup MapKeys(forward) \cup UNION {Range(forward[i][2]) : i \in DOMAIN forward}

\* the nodes are distinct paths, the queue holds distinct nodes, and the
\* nodes dequeued so far are those no longer waiting
EnqueuedOnce ==
    pc = "bfs" =>
        /\ NoDuplicates([i \in DOMAIN nodes |-> nodes[i][1]])
        /\ NoDuplicates([i \in DOMAIN queue |-> queue[i].path])
        /\ {queue[i].path : i \in DOMAIN queue} \subseteq MapKeys(nodes)
        /\ MapKeys(nodes) \subseteq Reachable

\* a turn of the loop dequeues one node and queues exactly the nodes it adds
OneDequeueATurn ==
    (pc = "bfs" /\ queue # <<>>) =>
        /\ Len(nodes') - Len(queue') = Len(nodes) - Len(queue) + 1
        /\ \A j \in DOMAIN queue' :
              j >= Len(queue) => queue'[j].path \notin MapKeys(nodes)

\* C27: the walk terminates, link cycles and self-links included: each node
\* is queued at most once, so the nodes dequeued never outnumber the nodes,
\* and the walk, once begun, returns.
C27_WalkTerminates ==
    /\ []EnqueuedOnce
    /\ [][OneDequeueATurn]_vars
    /\ (pc = "bfs") ~> (pc = "done")

\* C27 witness: a walk two deep both ways over documents that link to one
\* another in a cycle and to themselves has returned
C27_Witness ==
    /\ pc = "done"
    /\ call.depth = Given(2)
    /\ call.direction = "both"
    /\ \E a, b \in MapKeys(forward) :
          /\ a # b
          /\ a \in LinksOf(b)
          /\ b \in LinksOf(a)
          /\ a \in LinksOf(a)
          /\ Len(result.nodes) >= 2

\* the distinct reference tokens of a note text, trimmed, in the order of
\* their first appearance, as the text's author reads them
TokensMeant(text) ==
    CASE text = "no links" -> <<>>
      [] text = "see [[a]]" -> <<"a">>
      [] text = "[[b]] and [[a]]" -> <<"b", "a">>
      [] text = "[[zz]] [[b|x]] [[B.md]] [[ b#h ]]" -> <<"zz", "b", "B.md">>
      [] text = "[[s/a]] then [[zz]]" -> <<"s/a", "zz">>

\* C28: the forward list of a document has one entry for each distinct
\* trimmed token of the document, in order of first appearance; the entries
\* are not deduplicated by resolved target, so two tokens that resolve to
\* one path give two entries.
C28_ForwardListPerToken ==
    pc = "done" =>
        /\ MapKeys(forward) = Documents
        /\ \A i \in DOMAIN forward :
              \E tokens \in {TokensMeant(readFile(disk, resolve(root, forward[i][1])))} :
                  forward[i][2] = [k \in DOMAIN tokens |-> TargetOf(tokens[k])]

\* C28 witness: a document names B.md as "b", as "B.md" and as " b#h ": its
\* forward list holds B.md twice, once for each distinct token
C28_Witness ==
    /\ pc = "done"
    /\ \E i \in DOMAIN forward :
          /\ readFile(disk, resolve(root, forward[i][1])) = "[[zz]] [[b|x]] [[B.md]] [[ b#h ]]"
          /\ forward[i][2] = <<"zz", "B.md", "B.md">>

\* C29: in a graph result both endpoints of every edge are nodes; every
\* node but the root is joined by an edge to a node one less deep; the root
\* is the first node; the nodes are listed by depth, none twice.
C29_NodesAndEdgesAgree ==
    pc = "done" =>
        \E ns \in {result.nodes}, es \in {result.edges} :
            /\ ns # <<>>
            /\ ns[1].path = result.root
            /\ result.root = StartPath
            /\ \A e \in Range(es) :
                  {e.source, e.target} \subseteq {ns[i].path : i \in DOMAIN ns}
            /\ \A i \in DOMAIN ns :
                  i > 1 =>
                     \E e \in Range(es), j \in DOMAIN ns :
                        /\ ns[j].depth = ns[i].depth - 1
                        /\ \/ e = Edge(ns[j].path, ns[i].path)
                           \/ e = Edge(ns[i].path, ns[j].path)
            /\ \A i, j \in DOMAIN ns :
                  i < j => ns[i].depth <= ns[j].depth /\ ns[i].path # ns[j].path

\* C29 witness: a result two hops deep with a node that is no document,
\* reached by an edge from a node one hop from the root
C29_Witness ==
    /\ pc = "done"
    /\ \E i, j \in DOMAIN result.nodes :
          /\ result.nodes[i].depth = 2
          /\ ~result.nodes[i].exists
          /\ result.nodes[j].depth = 1
          /\ Edge(result.nodes[j].path, result.nodes[i].path) \in Range(result.edges)
    /\ Len(result.edges) > Len(result.nodes)

----------------------------------------------------------------------------
(* C30: the sessions table holds an id only from its onsessioninitialized  *)
(* callback until its onsessionclosed callback; a request carrying an      *)
(* mcp-session-id that is not in the table, and a request without a        *)
(* session id that is not a POST initialize request, is answered with      *)
(* HTTP 400 and adds nothing to the table.                                 *)

\* the ids whose onsessioninitialized callback has run
Initialized == {SessionIds[i] : i \in 1..http.issued}

\* the last request carried an mcp-session-id; an empty header value is
\* no id
CarriedId == http.request.sessionId.given /\ http.request.sessionId.value # ""

\* the last request carried an mcp-session-id the table did not hold
UnknownSession == CarriedId /\ http.request.sessionId.value \notin http.before

\* the last request carried no mcp-session-id and was not a POST initialize
NotInitialize ==
    /\ ~CarriedId
    /\ ~(http.request.method = "POST" /\ http.request.body = "initialize")

C30_UnknownSessionsAreRefused ==
    /\ http.sessions = Initialized \ http.closed
    /\ (http.answer # "none" /\ (UnknownSession \/ NotInitialize))
           => (http.answer = "400" /\ http.sessions = http.before)

============================================================================
